---- MODULE Spec2Model ----
(***************************************************************************)
(* Model of the GVBASIC simulator of wqxtools (Qt front end):              *)
(*   - the program lifecycle state machine of GvbEditor                    *)
(*     (gui/src/gvb/gvbeditor.cpp, initStateMachine / tryStartPause),      *)
(*   - the execution scheduler of GvbSimWindow                             *)
(*     (gui/src/gvb/gvbsim_window.cpp: start/cont/pause/stop/execLater/    *)
(*     sleep/keyDown/keyUp/timerEvent and the timer helpers),              *)
(*   - the structured keyboard-input dialog GvbSimInputDialog              *)
(*     (gui/src/gvb/gvbsim_input_dialog.cpp).                              *)
(*                                                                         *)
(* Everything runs on the single GUI thread.  The event loop is modelled   *)
(* by interleaving: every handler is one atomic action, except where the   *)
(* code itself spins a nested event loop (QDialog::exec,                   *)
(* QMessageBox::critical); there the handler is split at the blocking call *)
(* and the open modal windows are kept on the stack `modal'.               *)
(* Slot invocations posted through a Qt::QueuedConnection are delivered    *)
(* before the next user input event or timer event (the dispatcher sends   *)
(* posted events first); zero-delay and sleep single-shot timers           *)
(* interleave freely with user input.                                      *)
(***************************************************************************)
EXTENDS Integers, Naturals, Sequences, FiniteSets, TLC

(***************************************************************************)
(* Bounds of the model.                                                    *)
(***************************************************************************)
MaxHistory == 4      \* length of the replayed lifecycle event sequences
MaxPending == 2      \* pending zero-delay execLater callbacks
MaxSleep   == 2      \* armed sleep single-shot timers
MaxTimers  == 3      \* QObject timer ids available to startTimer
MaxSteps   == 3      \* gvb_vm_exec calls between two resets of the engine
MaxModal   == 1      \* depth of nested modal windows
MaxFields  == 2      \* field descriptors of one KeyboardInput request
MaxRes     == 3      \* engine values one dialog session obtains
MaxProgram == 4      \* results a given program makes the engine report
MaxDocs    == 2      \* documents loaded into one editor
MaxEdits   == 2      \* text changes buffered in m_edits
MaxEdTimers == 2     \* QObject timer ids available to the editor
MaxCoord   == 3      \* largest device coordinate of a dirty rectangle
MaxScale   == 3      \* largest pixel scale

VARIABLES
  (* --- lifecycle state machine (GvbEditor::m_stateMachine) --- *)
  lifecycle,       \* active QState: "Stopped" | "Started" | "Paused"
  history,         \* replay specification only: the events dispatched so far
  (* --- GvbSimWindow --- *)
  m_paused,        \* GvbSimWindow::m_paused
  m_execResult,    \* tag of GvbSimWindow::m_execResult
  m_execInput,     \* tag of GvbSimWindow::m_execInput
  m_timerCursor,   \* id of the cursor-blink timer, 0 = none
  m_timerRepaint,  \* id of the repaint timer, 0 = none
  timers,          \* the window's QObject timers: id -> "free"|"cursor"|"repaint"
  pendingExec,     \* zero-delay single shots posted by execLater, not yet run
  sleepTimers,     \* single shots armed by sleep(), not yet expired
  startQueued,     \* queued invocations of the start() slot, not yet delivered
  modal,           \* stack of open modal windows (nested event loops)
  (* --- external engine and device, as far as the window drives them --- *)
  vmSteps,         \* gvb_vm_exec calls since the engine was last reset
  vmStopped,       \* gvb_vm_stop was called since the last reset
  vmInput,         \* the GvbExecInput handed to the latest gvb_vm_exec
  devKeyPressed,   \* device: a key is held down
  devKeyBuffered,  \* device: a key is buffered and can be assigned
  devCursorOn,     \* device: caret visible
  devDirty,        \* device: screen has a dirty area
  program,         \* the results the loaded program makes gvb_vm_exec report,
                   \* in order; <<>> stands for any program
  sleepNs,         \* m_execResult.sleep._0 while the tag is Sleep
  armedMs,         \* <<msec>> of the single shot sleep() armed last, <<>>
                   \* when none is armed
  (* --- GvbEditor --- *)
  errorsShown,     \* GvbEditor::showRuntimeError calls since the last start()
  m_gvbsim,        \* GvbEditor::m_gvbsim is set: the simulator window exists
  m_doc,           \* GvbEditor::m_doc: the loaded document, numbered by
                   \* loads; 0 once the editor is destroyed
  m_vm,            \* GvbSimWindow::m_vm: the number of the document the
                   \* engine was built from, 0 = nullptr
  m_device,        \* GvbSimWindow::m_device, likewise
  actStop,         \* enabled flag of the stop action of the editor tool
                   \* bar, the simulator tool bar and the main menu
  m_runtimeError,  \* CodeEditor shows a runtime-error annotation
  closePending,    \* GvbSimWindow::closeEvent has been called and the
                   \* window (WA_DeleteOnClose) is not destroyed yet
  (* --- GvbSimScreen --- *)
  m_dirtyArea,     \* GvbSimScreen::m_dirtyArea: 0 = null, 1 = a rectangle
  updatePending,   \* QWidget::update was called and no paint event has
                   \* been delivered since
  mapped,          \* the simulator window is shown on the screen
  (* --- GvbSimInputDialog --- *)
  fields,          \* the field descriptors of the KeyboardInput request
  text,            \* what each field's widget currently holds
  msg,             \* the error label of each field
  m_input,         \* GvbSimInputDialog::m_input
  m_validateAll,   \* GvbSimInputDialog::m_validateAll
  m_validatedFields,   \* GvbSimInputDialog::m_validatedFields
  m_validateOkFields,  \* GvbSimInputDialog::m_validateOkFields
  m_rejected,      \* GvbSimInputDialog::m_rejected
  dlgResult,       \* QDialog result: "None" while open, "Accepted", "Rejected"
  dlgClosed,       \* exec() has returned and the dialog is destroyed
  queue,           \* posted invocations of the editingFinished handlers
  nextRes,         \* next engine value (byte string, function body) to hand out
  released,        \* per engine value: how often it was destroyed
  engineInput,     \* the values handed to gvb_new_input_array
  tally,           \* per field: how often the current round counted it
  staleCounted,    \* the round counted a validation posted before it began
  roundValid,      \* the last user input was a submit-all that found every
                   \* field holding a valid text
  (* --- GvbEditor: the document and its debounce timer --- *)
  m_timerModify,   \* GvbEditor::m_timerModify: id of the debounce timer, 0 = none
  edTimers,        \* ids of the editor's running QObject timers
  m_edits,         \* number of text changes buffered in GvbEditor::m_edits
  syncPending,     \* the single shot of syncMachNameEdit is posted
  errorPosted,     \* tryStartPause posted its error message to the MessageBus
  (* --- GvbSimKeyboard and the key events of the window --- *)
  keySource,       \* "none" | "button" | "key": where the last key came from
  keyLabel,        \* the Qt key pressed or the key the button stands for
  firedKey,        \* the code handed to keyDown for it, 0 = keyDown not called
  (* --- repaint geometry --- *)
  dirtyRect,       \* the device's dirty area [left, top, right, bottom], or <<>>
  pixel_scale,     \* config()->gvb.simulator.pixel_scale
  markedRect,      \* the QRect handed to GvbSimScreen::markDirty, or <<>>
  updateRect,      \* the QRect handed to QWidget::update, or <<>>
  (* --- observation --- *)
  vmMissing,       \* text changes buffered in m_edits, hence missing from
                   \* the document, when the engine was last built
  sleepWakes,      \* runStep invocations scheduled by sleep expiries since
                   \* the engine last returned Sleep
  runNotes,        \* what happened since the last start(): an input dialog
                   \* was "dismissed", gvb_vm_stop failed ("stopFailed")
  lastAct          \* name of the last handler that ran

schedVars == <<m_paused, m_execResult, m_execInput, m_timerCursor,
               m_timerRepaint, timers, pendingExec, sleepTimers, startQueued,
               modal, vmSteps, vmStopped, vmInput, devKeyPressed, devKeyBuffered,
               devCursorOn, devDirty, sleepWakes, program, sleepNs, armedMs,
               errorsShown, runNotes>>

dlgVars == <<fields, text, msg, m_input, m_validateAll, m_validatedFields,
             m_validateOkFields, m_rejected, dlgResult, dlgClosed, queue,
             nextRes, released, engineInput, tally, staleCounted, roundValid>>

edVars == <<m_gvbsim, m_doc, m_vm, m_device, actStop, m_runtimeError,
            closePending>>

scrVars == <<m_dirtyArea, updatePending, mapped>>

docVars == <<m_timerModify, edTimers, m_edits, syncPending, errorPosted,
             vmMissing>>

kbdVars == <<keySource, keyLabel, firedKey>>

geoVars == <<dirtyRect, pixel_scale, markedRect, updateRect>>

auxVars == <<docVars, kbdVars, geoVars>>

vars == <<lifecycle, history, schedVars, dlgVars, edVars, scrVars, auxVars,
          lastAct>>

(***************************************************************************)
(* Lifecycle state machine                                                 *)
(***************************************************************************)
Events == {"start", "pause", "cont", "stop"}
States == {"Stopped", "Started", "Paused"}

\* Variant: the transition Paused --stop--> Stopped was not added.
TransitionsNoPausedStop ==
  { <<"Stopped", "start", "Started">>,
    <<"Started", "pause", "Paused">>,
    <<"Paused",  "cont",  "Started">>,
    <<"Started", "stop",  "Stopped">> }

\* The signal transitions added in GvbEditor::initStateMachine.
Transitions ==
  { <<"Stopped", "start", "Started">>,
    <<"Started", "pause", "Paused">>,
    <<"Paused",  "cont",  "Started">>,
    <<"Started", "stop",  "Stopped">>,
    <<"Paused",  "stop",  "Stopped">> }

\* QStateMachine handling one signal event: the transition of the active
\* state that the signal enables is taken, a signal that enables none is
\* discarded.
Dispatch(s, ev) ==
  IF \E t \in Transitions : t[1] = s /\ t[2] = ev
  THEN (CHOOSE t \in Transitions : t[1] = s /\ t[2] = ev)[3]
  ELSE s

\* Variant: the entered handler of Paused does not enable the stop action.
StopEnabledOnEntryStartedOnly(s) == s = "Started"

\* m_actStop->setEnabled(...) in the entered handlers of the three states
\* (GvbEditor, GvbSimWindow) and the "enabled" property MainWindow assigns
\* to its stop action in each state.
StopEnabledOnEntry(s) == s \in {"Started", "Paused"}

\* The stop actions after the state machine went from `from' to `to': the
\* entered handlers run when a transition was taken; the handler of the
\* simulator tool bar exists while the window does (win).
EnteredStop(from, to, acts, win) ==
  IF to = from THEN acts
  ELSE [editor |-> StopEnabledOnEntry(to),
        menu   |-> StopEnabledOnEntry(to),
        sim    |-> IF win THEN StopEnabledOnEntry(to) ELSE acts.sim]

\* m_edit->clearRuntimeError() in the entered handler of Started.
AnnotationOnEntry(from, to, shown) ==
  IF to # from /\ to = "Started" THEN FALSE ELSE shown

(***************************************************************************)
(* Sleep durations: a std::uint64_t count of nanoseconds, held as          *)
(* (hi * 2^31 + lo) * 1'000'000 + rem                                      *)
(***************************************************************************)
IntMax == 2147483647      \* the largest int
NsPerMs == 1000000
HalfMs == 500000

Ns(ms, r) == [hi |-> 0, lo |-> ms, rem |-> r]

ZeroNs == Ns(0, 0)

\* 2^64 - 1 = (8589 * 2^31 + 2007021037) * 1'000'000 + 551615
UInt64Max == [hi |-> 8589, lo |-> 2007021037, rem |-> 551615]

\* a < b
NsLess(a, b) ==
  \/ a.hi < b.hi
  \/ a.hi = b.hi /\ a.lo < b.lo
  \/ a.hi = b.hi /\ a.lo = b.lo /\ a.rem < b.rem

\* The least ns for which ns + 500'000 exceeds 2^64 - 1.
WrapFrom == [hi |-> UInt64Max.hi, lo |-> UInt64Max.lo,
             rem |-> UInt64Max.rem + 1 - HalfMs]

\* One more millisecond, carrying from lo into hi.
MsSucc(ns) ==
  IF ns.lo = IntMax THEN [hi |-> ns.hi + 1, lo |-> 0]
  ELSE [hi |-> ns.hi, lo |-> ns.lo + 1]

\* (ns + 500'000) / 1'000'000 in std::uint64_t: the sum wraps modulo 2^64,
\* and a wrapped sum is less than 500'000.
SleepMsec64(ns) ==
  IF ~NsLess(ns, WrapFrom) THEN [hi |-> 0, lo |-> 0]
  ELSE IF ns.rem + HalfMs < NsPerMs THEN [hi |-> ns.hi, lo |-> ns.lo]
  ELSE MsSucc(ns)

\* The std::uint64_t quotient m converted to the int parameter of
\* QTimer::singleShot: the low 32 bits, in two's complement.
ToInt(m) ==
  IF m.hi % 2 = 0 THEN m.lo ELSE (m.lo - IntMax) - 1

\* The msec argument GvbSimWindow::sleep(ns) passes to QTimer::singleShot.
SleepMsec(ns) == ToInt(SleepMsec64(ns))

(***************************************************************************)
(* Replay of arbitrary event sequences through the state machine           *)
(***************************************************************************)
WindowIdle ==
  /\ m_paused = FALSE
  /\ m_execResult = "Continue"
  /\ m_execInput = "None"
  /\ m_timerCursor = 0
  /\ m_timerRepaint = 0
  /\ timers = [i \in 1..MaxTimers |-> "free"]
  /\ pendingExec = 0
  /\ sleepTimers = 0
  /\ startQueued = 0
  /\ modal = <<>>
  /\ vmSteps = 0
  /\ vmStopped = FALSE
  /\ vmInput = "None"
  /\ devKeyPressed = FALSE
  /\ devKeyBuffered = FALSE
  /\ devCursorOn = FALSE
  /\ devDirty = FALSE
  /\ sleepWakes = 0
  /\ sleepNs = ZeroNs
  /\ armedMs = <<>>
  /\ errorsShown = 0
  /\ runNotes = {}
  /\ closePending = FALSE
  /\ m_dirtyArea = 0
  /\ updatePending = FALSE
  /\ mapped = TRUE

\* No simulator window has been created: GvbEditor's constructor, the first
\* document loaded, the state machine in `state'.
NoSimulator(state) ==
  /\ m_gvbsim = FALSE
  /\ m_doc = 1
  /\ m_vm = 0
  /\ m_device = 0
  /\ actStop = [editor |-> StopEnabledOnEntry(state),
                menu   |-> StopEnabledOnEntry(state),
                sim    |-> FALSE]
  /\ m_runtimeError = FALSE

\* The simulator window has been created for the first document and holds
\* the engine and the device built from it.
SimulatorLaunched(state) ==
  /\ m_gvbsim = TRUE
  /\ m_doc = 1
  /\ m_vm = 1
  /\ m_device = 1
  /\ actStop = [editor |-> StopEnabledOnEntry(state),
                menu   |-> StopEnabledOnEntry(state),
                sim    |-> StopEnabledOnEntry(state)]
  /\ m_runtimeError = FALSE

\* The window as constructed, no assumption made about the program.
SchedIdle == WindowIdle /\ program = <<>>

\* No input dialog has been constructed.
DlgIdle ==
  /\ fields = <<>>
  /\ text = <<>>
  /\ msg = <<>>
  /\ m_input = <<>>
  /\ m_validateAll = FALSE
  /\ m_validatedFields = 0
  /\ m_validateOkFields = 0
  /\ m_rejected = FALSE
  /\ dlgResult = "None"
  /\ dlgClosed = TRUE
  /\ queue = <<>>
  /\ nextRes = 1
  /\ released = [r \in 1..MaxRes |-> 0]
  /\ engineInput = <<>>
  /\ tally = <<>>
  /\ staleCounted = FALSE
  /\ roundValid = FALSE

\* The editor has no text change buffered and no timer running.
DocIdle ==
  /\ m_timerModify = 0
  /\ edTimers = {}
  /\ m_edits = 0
  /\ syncPending = FALSE
  /\ errorPosted = FALSE
  /\ vmMissing = 0

\* No key has been pressed.
KbdIdle ==
  /\ keySource = "none"
  /\ keyLabel = "none"
  /\ firedKey = 0

\* The device reports no dirty area; the screen is drawn at scale 1.
GeoIdle ==
  /\ dirtyRect = <<>>
  /\ pixel_scale = 1
  /\ markedRect = <<>>
  /\ updateRect = <<>>

AuxIdle == DocIdle /\ KbdIdle /\ GeoIdle

InitLifecycle ==
  /\ lifecycle = "Stopped"
  /\ history = <<>>
  /\ lastAct = "init"
  /\ SchedIdle
  /\ SimulatorLaunched("Stopped")
  /\ DlgIdle
  /\ AuxIdle

\* One of the four signals of GvbEditor reaches the state machine.
Signal(ev) ==
  /\ Len(history) < MaxHistory
  /\ lifecycle' = Dispatch(lifecycle, ev)
  /\ history' = Append(history, ev)
  /\ lastAct' = ev
  /\ actStop' = EnteredStop(lifecycle, lifecycle', actStop, m_gvbsim)
  /\ m_runtimeError' = AnnotationOnEntry(lifecycle, lifecycle', m_runtimeError)
  /\ UNCHANGED <<m_gvbsim, m_doc, m_vm, m_device, closePending>>
  /\ UNCHANGED <<schedVars, dlgVars, auxVars, scrVars>>

NextLifecycle == \E ev \in Events : Signal(ev)

SpecLifecycle == InitLifecycle /\ [][NextLifecycle]_vars

(***************************************************************************)
(* GvbSimWindow: helpers                                                   *)
(***************************************************************************)
ExecResults == {"Continue", "Sleep", "InKey", "KeyboardInput", "Error", "End"}

Min(S) == CHOOSE x \in S : \A y \in S : x <= y

FreeIds(ts) == {i \in 1..MaxTimers : ts[i] = "free"}

\* QObject::killTimer as used by stopCursorTimer / stopRepaintTimer:
\* nothing happens when the member holds 0.
KillTimer(ts, id) == IF id = 0 THEN ts ELSE [ts EXCEPT ![id] = "free"]

LiveTimers(kind) == {i \in 1..MaxTimers : timers[i] = kind}

\* Variant: the repaint timer is not killed.
stopRepaintTimerKeeps(ts, id) == ts

\* GvbSimWindow::stopRepaintTimer on the timers ts, id being m_timerRepaint.
stopRepaintTimer(ts, id) == KillTimer(ts, id)

\* A GvbExecResult as far as the window reads it: the tag and, for Sleep,
\* the duration.
Result(tag, ns) == [tag |-> tag, ns |-> ns]

\* Sleep(1'500'000 ns)
AnySleep == Ns(1, HalfMs)

\* Durations at the edges of the rounding, of int and of std::uint64_t.
SleepSamples ==
  { ZeroNs, Ns(1, HalfMs - 1), AnySleep, Ns(IntMax - 1, HalfMs),
    Ns(IntMax, HalfMs - 1), Ns(IntMax, HalfMs), UInt64Max }

\* What the n-th gvb_vm_exec since the last reset can return: anything when
\* nothing is assumed about the program, else what the program says; a
\* program that has ended reports End again.
Reports(n) ==
  IF program = <<>>
  THEN {Result(t, IF t = "Sleep" THEN AnySleep ELSE ZeroNs) : t \in ExecResults}
  ELSE IF n <= Len(program) THEN {program[n]}
  ELSE {Result("End", ZeroNs)}

\* The gvb_vm_exec calls followed between two resets of the engine.
StepLimit == IF program = <<>> THEN MaxSteps ELSE Len(program) + 1

\* Programs of at most MaxProgram results: every result but the last lets
\* an undisturbed run go on, the last one does not.
Programs ==
  LET goesOn == {Result("Continue", ZeroNs), Result("KeyboardInput", ZeroNs)}
                \cup {Result("Sleep", ns) : ns \in SleepSamples}
      last   == {Result(t, ZeroNs) : t \in {"InKey", "Error", "End"}}
  IN UNION { { p \in [1..n -> goesOn \cup last] :
                 /\ \A i \in 1..(n - 1) : p[i] \in goesOn
                 /\ p[n] \in last } : n \in 1..MaxProgram }

\* GvbSimWindow::stop as a slot of GvbEditor::stop, together with the state
\* machine's handling of the same signal.  res and md are m_execResult and
\* the modal stack at the time of the emit.  When gvb_vm_stop reports an
\* error, QMessageBox::critical blocks stop() in a nested event loop; the
\* state machine has then either handled the signal already ("msgbox") or
\* handles it once stop() has returned ("msgboxThenStop"), depending on the
\* order of the two connections.  `notes' is runNotes with what the caller
\* adds to it.
EmitStop(res, md, notes) ==
  /\ timers' = stopRepaintTimer(KillTimer(timers, m_timerCursor),
                                m_timerRepaint)
  /\ m_timerCursor' = 0
  /\ m_timerRepaint' = 0
  /\ IF res = "End"
     THEN /\ m_execResult' = "End"
          /\ sleepNs' = sleepNs
          /\ runNotes' = notes
          /\ modal' = md
          /\ vmStopped' = vmStopped
          /\ lifecycle' = Dispatch(lifecycle, "stop")
     ELSE /\ vmStopped' = TRUE
          /\ \/ /\ m_execResult' = "End"
                /\ sleepNs' = ZeroNs
                /\ runNotes' = notes
                /\ modal' = md
                /\ lifecycle' = Dispatch(lifecycle, "stop")
             \/ /\ Len(md) < MaxModal
                /\ m_execResult' = res
                /\ sleepNs' = sleepNs
                /\ runNotes' = notes \cup {"stopFailed"}
                /\ \/ /\ modal' = Append(md, "msgbox")
                      /\ lifecycle' = Dispatch(lifecycle, "stop")
                   \/ /\ modal' = Append(md, "msgboxThenStop")
                      /\ lifecycle' = lifecycle
  /\ actStop' = EnteredStop(lifecycle, lifecycle', actStop, m_gvbsim)
  /\ updatePending' = (updatePending \/ modal' = md)

\* Variant: the ExecInput handed over stays pending after the step.
KeepsExecInput(input) == input

\* api::gvb_reset_exec_input(&m_execInput) after the step.
ResetsExecInput(input) == "None"

\* api::gvb_vm_exec(m_vm, m_execInput, EXEC_STEPS) followed by
\* gvb_reset_exec_input and execLater(); `input' is the ExecInput handed
\* over, `pend' the number of callbacks pending before execLater().
ExecStep(input, pend) ==
  /\ vmSteps < StepLimit
  /\ pend < MaxPending
  /\ vmSteps' = vmSteps + 1
  /\ vmInput' = input
  /\ \E r \in Reports(vmSteps + 1) :
       /\ m_execResult' = r.tag
       /\ sleepNs' = r.ns
       /\ sleepWakes' = IF r.tag = "Sleep" THEN 0 ELSE sleepWakes
  /\ \E d \in {devDirty, TRUE} : devDirty' = d
  /\ m_execInput' = ResetsExecInput(input)
  /\ pendingExec' = pend + 1

\* An update request posted by QWidget::update is due for delivery.
PaintDue == updatePending /\ mapped

\* closeEvent has returned: the deferred delete of the window is due.
DeleteDue == closePending /\ modal = <<>>

\* The event loop has sent the posted events: the queued start, the update
\* request of a window that is shown, the deferred delete of a closed
\* window.
PostedSent == startQueued = 0 /\ ~PaintDue /\ ~DeleteDue

UserInputEnabled == modal = <<>> /\ PostedSent

(***************************************************************************)
(* GvbSimWindow: initial state (window constructed, state machine started) *)
(***************************************************************************)
Init ==
  /\ lifecycle = "Stopped"
  /\ history = <<>>
  /\ lastAct = "init"
  /\ SchedIdle
  /\ SimulatorLaunched("Stopped")
  /\ DlgIdle
  /\ AuxIdle

(***************************************************************************)
(* User actions routed through GvbEditor                                   *)
(***************************************************************************)
\* GvbEditor::tryStartPause in Stopped: the start signal is emitted (after
\* GvbSimWindow::reset(vm, device, name) installed a fresh engine and device
\* when the editor was the sender); the state machine takes the transition
\* at once, GvbSimWindow::start is connected queued.
requestStart ==
  /\ UserInputEnabled
  /\ m_gvbsim
  /\ lifecycle = "Stopped"
  /\ lifecycle' = Dispatch(lifecycle, "start")
  /\ startQueued' = startQueued + 1
  /\ \/ UNCHANGED <<vmSteps, vmStopped, vmInput, devKeyPressed,
                    devKeyBuffered, devCursorOn, devDirty, m_vm, m_device,
                    updatePending, mapped, vmMissing>>
     \/ /\ m_vm' = m_doc
        /\ m_device' = m_doc
        /\ vmMissing' = m_edits
        /\ mapped' = TRUE
        /\ updatePending' = (updatePending \/ ~mapped)
        /\ vmSteps' = 0
        /\ vmStopped' = FALSE
        /\ vmInput' = "None"
        /\ devKeyPressed' = FALSE
        /\ devKeyBuffered' = FALSE
        /\ devCursorOn' = FALSE
        /\ devDirty' = FALSE
  /\ lastAct' = "tryStartPause"
  /\ actStop' = EnteredStop(lifecycle, lifecycle', actStop, m_gvbsim)
  /\ m_runtimeError' = AnnotationOnEntry(lifecycle, lifecycle', m_runtimeError)
  /\ UNCHANGED <<dlgVars, kbdVars, geoVars, m_timerModify, edTimers, m_edits,
                 syncPending, errorPosted>>
  /\ UNCHANGED <<m_gvbsim, m_doc, closePending, m_dirtyArea>>
  /\ UNCHANGED <<history, m_paused, m_execResult, m_execInput, m_timerCursor,
                 m_timerRepaint, timers, pendingExec, sleepTimers,
                 modal, sleepWakes, program, sleepNs, armedMs, errorsShown, runNotes>>

\* Variant: cont() calls reset() as start() does.
contResets ==
  /\ UserInputEnabled
  /\ m_gvbsim
  /\ lifecycle = "Paused"
  /\ pendingExec < MaxPending
  /\ lifecycle' = Dispatch(lifecycle, "cont")
  /\ m_paused' = FALSE
  /\ m_execResult' = "Continue"
  /\ m_execInput' = "None"
  /\ vmSteps' = 0
  /\ vmStopped' = FALSE
  /\ vmInput' = "None"
  /\ devKeyPressed' = FALSE
  /\ devKeyBuffered' = FALSE
  /\ devCursorOn' = FALSE
  /\ devDirty' = FALSE
  /\ sleepNs' = ZeroNs
  /\ pendingExec' = pendingExec + 1
  /\ lastAct' = "tryStartPause"
  /\ actStop' = EnteredStop(lifecycle, lifecycle', actStop, m_gvbsim)
  /\ m_runtimeError' = AnnotationOnEntry(lifecycle, lifecycle', m_runtimeError)
  /\ UNCHANGED <<dlgVars, auxVars, m_gvbsim, m_doc, m_vm, m_device, closePending,
                 scrVars>>
  /\ UNCHANGED <<history, m_timerCursor, m_timerRepaint, timers, sleepTimers,
                 startQueued, modal, sleepWakes, program, armedMs,
                 errorsShown, runNotes>>

\* GvbEditor::tryStartPause in Paused: cont is emitted, GvbSimWindow::cont
\* runs.
cont ==
  /\ UserInputEnabled
  /\ m_gvbsim
  /\ lifecycle = "Paused"
  /\ pendingExec < MaxPending
  /\ lifecycle' = Dispatch(lifecycle, "cont")
  /\ m_paused' = FALSE
  /\ pendingExec' = pendingExec + 1
  /\ lastAct' = "tryStartPause"
  /\ actStop' = EnteredStop(lifecycle, lifecycle', actStop, m_gvbsim)
  /\ m_runtimeError' = AnnotationOnEntry(lifecycle, lifecycle', m_runtimeError)
  /\ UNCHANGED <<dlgVars, auxVars, m_gvbsim, m_doc, m_vm, m_device, closePending,
                 scrVars>>
  /\ UNCHANGED <<history, m_execResult, m_execInput, m_timerCursor,
                 m_timerRepaint, timers, sleepTimers, startQueued,
                 modal, vmSteps, vmStopped, vmInput, devKeyPressed,
                 devKeyBuffered, devCursorOn, devDirty, sleepWakes,
                 program, sleepNs, armedMs, errorsShown, runNotes>>

\* GvbEditor::tryStartPause in Started: pause is emitted,
\* GvbSimWindow::pause runs.
pause ==
  /\ UserInputEnabled
  /\ m_gvbsim
  /\ lifecycle = "Started"
  /\ lifecycle' = Dispatch(lifecycle, "pause")
  /\ m_paused' = TRUE
  /\ lastAct' = "tryStartPause"
  /\ actStop' = EnteredStop(lifecycle, lifecycle', actStop, m_gvbsim)
  /\ m_runtimeError' = AnnotationOnEntry(lifecycle, lifecycle', m_runtimeError)
  /\ UNCHANGED <<dlgVars, auxVars, m_gvbsim, m_doc, m_vm, m_device, closePending,
                 scrVars>>
  /\ UNCHANGED <<history, m_execResult, m_execInput, m_timerCursor,
                 m_timerRepaint, timers, pendingExec, sleepTimers,
                 startQueued, modal, vmSteps, vmStopped, vmInput,
                 devKeyPressed, devKeyBuffered, devCursorOn, devDirty,
                 sleepWakes, program, sleepNs, armedMs, errorsShown, runNotes>>

\* GvbEditor::tryStartPause, the slot of the start/pause/continue action.
tryStartPause == requestStart \/ cont \/ pause

\* GvbSimWindow::start, delivered through the queued connection: reset(),
\* execLater(), startRepaintTimer().
start ==
  /\ startQueued > 0
  /\ pendingExec < MaxPending
  /\ FreeIds(timers) # {}
  /\ startQueued' = startQueued - 1
  /\ m_paused' = FALSE
  /\ m_execResult' = "Continue"
  /\ m_execInput' = "None"
  /\ vmSteps' = 0
  /\ vmStopped' = FALSE
  /\ vmInput' = "None"
  /\ devKeyPressed' = FALSE
  /\ devKeyBuffered' = FALSE
  /\ devCursorOn' = FALSE
  /\ devDirty' = FALSE
  /\ pendingExec' = pendingExec + 1
  /\ m_timerRepaint' = Min(FreeIds(timers))
  /\ timers' = [timers EXCEPT ![Min(FreeIds(timers))] = "repaint"]
  /\ sleepNs' = ZeroNs
  /\ errorsShown' = 0
  /\ runNotes' = {}
  /\ lastAct' = "start"
  /\ updatePending' = TRUE
  /\ UNCHANGED <<dlgVars, auxVars, edVars, m_dirtyArea, mapped>>
  /\ UNCHANGED <<lifecycle, history, m_timerCursor, sleepTimers, modal,
                 sleepWakes, program, armedMs>>

\* The stop action of the editor or simulator tool bar (enabled by the
\* entered callbacks of Started and Paused, disabled by that of Stopped):
\* emit stop.
stop ==
  /\ UserInputEnabled
  /\ m_gvbsim
  /\ lifecycle # "Stopped"
  /\ EmitStop(m_execResult, modal, runNotes)
  /\ lastAct' = "stop"
  /\ UNCHANGED <<dlgVars, auxVars, m_gvbsim, m_doc, m_vm, m_device, m_runtimeError,
                 closePending, m_dirtyArea, mapped>>
  /\ UNCHANGED <<history, m_paused, m_execInput, pendingExec, sleepTimers,
                 startQueued, vmSteps, vmInput, devKeyPressed, devKeyBuffered,
                 devCursorOn, devDirty, sleepWakes, program, armedMs,
                 errorsShown>>

\* The error box opened by stop() is dismissed: stop() resumes and forces
\* the result to End.
stopBoxClosed ==
  /\ modal # <<>>
  /\ modal[Len(modal)] \in {"msgbox", "msgboxThenStop"}
  /\ PostedSent
  /\ modal' = SubSeq(modal, 1, Len(modal) - 1)
  /\ m_execResult' = "End"
  /\ lifecycle' = IF modal[Len(modal)] = "msgboxThenStop"
                  THEN Dispatch(lifecycle, "stop") ELSE lifecycle
  /\ sleepNs' = ZeroNs
  /\ lastAct' = "stopBoxClosed"
  /\ actStop' = EnteredStop(lifecycle, lifecycle', actStop, m_gvbsim)
  /\ updatePending' = TRUE
  /\ UNCHANGED <<dlgVars, auxVars, m_gvbsim, m_doc, m_vm, m_device, m_runtimeError,
                 closePending, m_dirtyArea, mapped>>
  /\ UNCHANGED <<history, m_paused, m_execInput, m_timerCursor,
                 m_timerRepaint, timers, pendingExec, sleepTimers,
                 startQueued, vmSteps, vmStopped, vmInput, devKeyPressed,
                 devKeyBuffered, devCursorOn, devDirty, sleepWakes, program,
                 armedMs, errorsShown, runNotes>>

(***************************************************************************)
(* The scheduler: the callback posted by execLater, and sleep              *)
(***************************************************************************)
\* Variant: the callback does not test m_paused.
SkipsNever == FALSE

\* The callback's first test: a paused scheduler returns at once.
SkipsWhenPaused == m_paused

\* Variant: case End has no return and falls through to the step as well.
StepsAtOnceOrAtEnd(tag) == tag \in {"Continue", "End"}

\* The case of the callback's switch that only breaks, to the step.
StepsAtOnce(tag) == tag = "Continue"

\* The zero-delay single shot of GvbSimWindow::execLater fires.
runStep ==
  /\ pendingExec > 0
  /\ PostedSent
  /\ lastAct' = "runStep"
  /\ UNCHANGED <<dlgVars, auxVars, m_gvbsim, m_doc, m_vm, m_device, closePending,
                 m_dirtyArea, mapped>>
  /\ UNCHANGED <<history, program>>
  /\ IF SkipsWhenPaused
     THEN /\ pendingExec' = pendingExec - 1
          /\ UNCHANGED <<lifecycle, m_paused, m_execResult, m_execInput,
                         m_timerCursor, m_timerRepaint, timers, sleepTimers,
                         startQueued, modal, vmSteps, vmStopped, vmInput,
                         devKeyPressed, devKeyBuffered, devCursorOn, devDirty,
                         sleepWakes, sleepNs, armedMs, errorsShown, runNotes,
                         actStop, m_runtimeError, updatePending>>
     ELSE
       \/ /\ m_execResult = "End"
          /\ EmitStop("End", modal, runNotes)
          /\ m_runtimeError' = m_runtimeError
          /\ pendingExec' = pendingExec - 1
          /\ UNCHANGED <<m_paused, m_execInput, sleepTimers, startQueued,
                         vmSteps, vmInput, devKeyPressed, devKeyBuffered,
                         devCursorOn, devDirty, sleepWakes, armedMs,
                         errorsShown>>
       \/ /\ StepsAtOnce(m_execResult)
          /\ ExecStep(m_execInput, pendingExec - 1)
          /\ UNCHANGED <<lifecycle, m_paused, m_timerCursor, m_timerRepaint,
                         timers, sleepTimers, startQueued, modal, vmStopped,
                         devKeyPressed, devKeyBuffered, devCursorOn, armedMs,
                         errorsShown, runNotes, actStop, m_runtimeError,
                         updatePending>>
       \/ /\ m_execResult = "Sleep"
          /\ sleepTimers < MaxSleep
          /\ sleepTimers' = sleepTimers + 1
          /\ armedMs' = <<SleepMsec(sleepNs)>>
          /\ pendingExec' = pendingExec - 1
          /\ UNCHANGED <<lifecycle, m_paused, m_execResult, m_execInput,
                         m_timerCursor, m_timerRepaint, timers, startQueued,
                         modal, vmSteps, vmStopped, vmInput, devKeyPressed,
                         devKeyBuffered, devCursorOn, devDirty, sleepWakes,
                         sleepNs, errorsShown, runNotes, actStop,
                         m_runtimeError, updatePending>>
       \/ /\ m_execResult = "InKey"
          /\ ~devKeyBuffered
          /\ FreeIds(timers) # {}
          /\ m_timerCursor' = Min(FreeIds(timers))
          /\ timers' = [timers EXCEPT ![Min(FreeIds(timers))] = "cursor"]
          /\ pendingExec' = pendingExec - 1
          /\ UNCHANGED <<lifecycle, m_paused, m_execResult, m_execInput,
                         m_timerRepaint, sleepTimers, startQueued, modal,
                         vmSteps, vmStopped, vmInput, devKeyPressed,
                         devKeyBuffered, devCursorOn, devDirty, sleepWakes,
                         sleepNs, armedMs, errorsShown, runNotes, actStop,
                         m_runtimeError, updatePending>>
       \/ /\ m_execResult = "InKey"
          /\ devKeyBuffered
          /\ devKeyBuffered' = FALSE
          /\ timers' = KillTimer(timers, m_timerCursor)
          /\ m_timerCursor' = 0
          /\ ExecStep("Key", pendingExec - 1)
          /\ UNCHANGED <<lifecycle, m_paused, m_timerRepaint, sleepTimers,
                         startQueued, modal, vmStopped, devKeyPressed,
                         devCursorOn, armedMs, errorsShown, runNotes, actStop,
                         m_runtimeError, updatePending>>
       \/ /\ m_execResult = "KeyboardInput"
          /\ FreeIds(timers) # {}
          /\ Len(modal) < MaxModal
          /\ m_timerCursor' = Min(FreeIds(timers))
          /\ timers' = [timers EXCEPT ![Min(FreeIds(timers))] = "cursor"]
          /\ modal' = Append(modal, "dlg")
          /\ pendingExec' = pendingExec - 1
          /\ UNCHANGED <<lifecycle, m_paused, m_execResult, m_execInput,
                         m_timerRepaint, sleepTimers, startQueued, vmSteps,
                         vmStopped, vmInput, devKeyPressed, devKeyBuffered,
                         devCursorOn, devDirty, sleepWakes, sleepNs, armedMs,
                         errorsShown, runNotes, actStop, m_runtimeError,
                         updatePending>>
       \/ /\ m_execResult = "Error"
          /\ errorsShown' = errorsShown + 1
          /\ m_runtimeError' = TRUE
          /\ EmitStop("End", modal, runNotes)
          /\ pendingExec' = pendingExec - 1
          /\ UNCHANGED <<m_paused, m_execInput, sleepTimers, startQueued,
                         vmSteps, vmInput, devKeyPressed, devKeyBuffered,
                         devCursorOn, devDirty, sleepWakes, armedMs>>

\* GvbSimInputDialog::exec() returned QDialog::Accepted: the rest of the
\* KeyboardInput case of the callback, then the step.
inputAccepted ==
  /\ modal # <<>>
  /\ modal[Len(modal)] = "dlg"
  /\ PostedSent
  /\ modal' = SubSeq(modal, 1, Len(modal) - 1)
  /\ timers' = KillTimer(timers, m_timerCursor)
  /\ m_timerCursor' = 0
  /\ ExecStep("KeyboardInput", pendingExec)
  /\ lastAct' = "inputAccepted"
  /\ UNCHANGED <<dlgVars, auxVars, edVars, scrVars>>
  /\ UNCHANGED <<lifecycle, history, m_paused, m_timerRepaint, sleepTimers,
                 startQueued, vmStopped, devKeyPressed, devKeyBuffered,
                 devCursorOn, program, armedMs, errorsShown, runNotes>>

\* GvbSimInputDialog::exec() returned QDialog::Rejected: emit stop, return.
inputRejected ==
  /\ modal # <<>>
  /\ modal[Len(modal)] = "dlg"
  /\ PostedSent
  /\ EmitStop(m_execResult, SubSeq(modal, 1, Len(modal) - 1),
              runNotes \cup {"dismissed"})
  /\ lastAct' = "inputRejected"
  /\ UNCHANGED <<dlgVars, auxVars, m_gvbsim, m_doc, m_vm, m_device, m_runtimeError,
                 closePending, m_dirtyArea, mapped>>
  /\ UNCHANGED <<history, m_paused, m_execInput, pendingExec, sleepTimers,
                 startQueued, vmSteps, vmInput, devKeyPressed, devKeyBuffered,
                 devCursorOn, devDirty, sleepWakes, program, armedMs,
                 errorsShown>>

\* The single shot armed by GvbSimWindow::sleep expires.
sleepExpired ==
  /\ sleepTimers > 0
  /\ PostedSent
  /\ sleepTimers' = sleepTimers - 1
  /\ m_execResult' = "Continue"
  /\ IF ~m_paused
     THEN /\ pendingExec < MaxPending
          /\ pendingExec' = pendingExec + 1
          /\ sleepWakes' = sleepWakes + 1
     ELSE UNCHANGED <<pendingExec, sleepWakes>>
  /\ sleepNs' = ZeroNs
  /\ armedMs' = IF sleepTimers = 1 THEN <<>> ELSE armedMs
  /\ lastAct' = "sleepExpired"
  /\ UNCHANGED <<dlgVars, auxVars, edVars, scrVars>>
  /\ UNCHANGED <<lifecycle, history, m_paused, m_execInput, m_timerCursor,
                 m_timerRepaint, timers, startQueued, modal, vmSteps,
                 vmStopped, vmInput, devKeyPressed, devKeyBuffered,
                 devCursorOn, devDirty, program, errorsShown, runNotes>>

(***************************************************************************)
(* Keys and periodic timers                                                *)
(***************************************************************************)
\* GvbSimWindow::keyDown (key press in the window or on-screen keyboard).
keyDown ==
  /\ UserInputEnabled
  /\ devKeyPressed' = TRUE
  /\ devKeyBuffered' = TRUE
  /\ IF m_execResult = "InKey"
     THEN /\ pendingExec < MaxPending
          /\ pendingExec' = pendingExec + 1
     ELSE pendingExec' = pendingExec
  /\ lastAct' = "keyDown"
  /\ UNCHANGED <<dlgVars, auxVars, edVars, scrVars>>
  /\ UNCHANGED <<lifecycle, history, m_paused, m_execResult, m_execInput,
                 m_timerCursor, m_timerRepaint, timers, sleepTimers,
                 startQueued, modal, vmSteps, vmStopped, vmInput,
                 devCursorOn, devDirty, sleepWakes, program,
                 sleepNs, armedMs, errorsShown, runNotes>>

\* GvbSimWindow::keyUp.
keyUp ==
  /\ UserInputEnabled
  /\ devKeyPressed
  /\ devKeyPressed' = FALSE
  /\ lastAct' = "keyUp"
  /\ UNCHANGED <<dlgVars, auxVars, edVars, scrVars>>
  /\ UNCHANGED <<lifecycle, history, m_paused, m_execResult, m_execInput,
                 m_timerCursor, m_timerRepaint, timers, pendingExec,
                 sleepTimers, startQueued, modal, vmSteps, vmStopped,
                 vmInput, devKeyBuffered, devCursorOn, devDirty, sleepWakes, program,
                 sleepNs, armedMs, errorsShown, runNotes>>

\* GvbSimWindow::timerEvent for the timer whose id is m_timerCursor.
cursorTick ==
  /\ m_timerCursor # 0
  /\ PostedSent
  /\ devCursorOn' = IF m_paused THEN devCursorOn ELSE ~devCursorOn
  /\ lastAct' = "cursorTick"
  /\ UNCHANGED <<dlgVars, auxVars, edVars, scrVars>>
  /\ UNCHANGED <<lifecycle, history, m_paused, m_execResult, m_execInput,
                 m_timerCursor, m_timerRepaint, timers, pendingExec,
                 sleepTimers, startQueued, modal, vmSteps, vmStopped,
                 vmInput, devKeyPressed, devKeyBuffered, devDirty,
                 sleepWakes, program,
                 sleepNs, armedMs, errorsShown, runNotes>>

\* GvbSimScreen::markDirty(area) on the m_dirtyArea `old'.
markDirty(old, area) == area

\* GvbSimWindow::timerEvent for the timer whose id is m_timerRepaint:
\* gvb_device_screen_dirty_area hands out the dirty area and clears it; a
\* rectangle handed out goes to GvbSimScreen::markDirty and QWidget::update.
repaintTick ==
  /\ m_timerRepaint # 0
  /\ m_timerCursor # m_timerRepaint
  /\ PostedSent
  /\ devDirty' = FALSE
  /\ lastAct' = "repaintTick"
  /\ IF devDirty
     THEN /\ m_dirtyArea' = markDirty(m_dirtyArea, 1)
          /\ updatePending' = TRUE
     ELSE UNCHANGED <<m_dirtyArea, updatePending>>
  /\ UNCHANGED <<dlgVars, auxVars, edVars, mapped>>
  /\ UNCHANGED <<lifecycle, history, m_paused, m_execResult, m_execInput,
                 m_timerCursor, m_timerRepaint, timers, pendingExec,
                 sleepTimers, startQueued, modal, vmSteps, vmStopped,
                 vmInput, devKeyPressed, devKeyBuffered, devCursorOn,
                 sleepWakes, program,
                 sleepNs, armedMs, errorsShown, runNotes>>

\* GvbSimScreen::paintEvent, delivered for the update request of a window
\* that is shown: the rectangle held in m_dirtyArea is drawn and the member
\* is cleared; when it holds none, the whole image is drawn.
paintEvent ==
  /\ m_gvbsim
  /\ PaintDue
  /\ m_dirtyArea' = 0
  /\ updatePending' = FALSE
  /\ lastAct' = "paintEvent"
  /\ UNCHANGED <<lifecycle, history, schedVars, dlgVars, auxVars, edVars, mapped>>

Next ==
  \/ tryStartPause
  \/ start
  \/ stop
  \/ stopBoxClosed
  \/ runStep
  \/ inputAccepted
  \/ inputRejected
  \/ sleepExpired
  \/ keyDown
  \/ keyUp
  \/ cursorTick
  \/ repaintTick
  \/ paintEvent

Spec == Init /\ [][Next]_vars

(***************************************************************************)
(* Undisturbed runs of given programs: the user starts the program and     *)
(* answers its input dialogs, and neither pauses, stops nor presses a key  *)
(***************************************************************************)
InitRun ==
  /\ lifecycle = "Stopped"
  /\ history = <<>>
  /\ lastAct = "init"
  /\ WindowIdle
  /\ SimulatorLaunched("Stopped")
  /\ program \in Programs
  /\ DlgIdle
  /\ AuxIdle

NextRun ==
  \/ requestStart
  \/ start
  \/ stopBoxClosed
  \/ runStep
  \/ inputAccepted
  \/ inputRejected
  \/ sleepExpired
  \/ cursorTick
  \/ repaintTick
  \/ paintEvent

SpecRun == InitRun /\ [][NextRun]_vars

(***************************************************************************)
(* The editor and the life of the simulator window: the start action of    *)
(* the editor builds the engine and the device from the document and       *)
(* creates the window when there is none; files are loaded into the        *)
(* editor; the window is closed; the editor is destroyed.                  *)
(***************************************************************************)
\* ~GvbSimWindow: the engine and the device are destroyed; the window's
\* timers, its single shots and the invocations queued for it go with it;
\* the destroyed handler of the editor clears m_gvbsim.
WindowGone ==
  /\ m_gvbsim' = FALSE
  /\ m_vm' = 0
  /\ m_device' = 0
  /\ closePending' = FALSE
  /\ actStop' = [actStop EXCEPT !.sim = FALSE]
  /\ m_paused' = FALSE
  /\ m_execResult' = "Continue"
  /\ m_execInput' = "None"
  /\ m_timerCursor' = 0
  /\ m_timerRepaint' = 0
  /\ timers' = [i \in 1..MaxTimers |-> "free"]
  /\ pendingExec' = 0
  /\ sleepTimers' = 0
  /\ startQueued' = 0
  /\ modal' = <<>>
  /\ vmSteps' = 0
  /\ vmStopped' = FALSE
  /\ vmInput' = "None"
  /\ devKeyPressed' = FALSE
  /\ devKeyBuffered' = FALSE
  /\ devCursorOn' = FALSE
  /\ devDirty' = FALSE
  /\ sleepWakes' = 0
  /\ sleepNs' = ZeroNs
  /\ armedMs' = <<>>
  /\ errorsShown' = 0
  /\ runNotes' = {}
  /\ m_dirtyArea' = 0
  /\ updatePending' = FALSE
  /\ mapped' = TRUE

\* GvbEditor::tryStartPause(this) in Stopped with no simulator window: the
\* engine and the device are built, the window is created, reset(vm,
\* device, name) installs them, the window is shown; no start is emitted.
launchSimulator ==
  /\ UserInputEnabled
  /\ m_doc # 0
  /\ ~m_gvbsim
  /\ lifecycle = "Stopped"
  /\ m_gvbsim' = TRUE
  /\ m_vm' = m_doc
  /\ m_device' = m_doc
  /\ actStop' = [actStop EXCEPT !.sim = StopEnabledOnEntry(lifecycle)]
  /\ mapped' = TRUE
  /\ updatePending' = TRUE
  /\ vmMissing' = m_edits
  /\ lastAct' = "launchSimulator"
  /\ UNCHANGED <<lifecycle, history, schedVars, dlgVars, kbdVars, geoVars,
                 m_timerModify, edTimers, m_edits, syncPending, errorPosted>>
  /\ UNCHANGED <<m_doc, m_runtimeError, closePending, m_dirtyArea>>

\* Variant: the slot does not return when gvb_document_vm returns Nothing;
\* it goes on to reset(vm, device, name) with the null engine and emits
\* start as it does for a document that builds.
buildFailsGoesOn ==
  /\ UserInputEnabled
  /\ m_doc # 0
  /\ lifecycle = "Stopped"
  /\ errorPosted' = TRUE
  /\ m_vm' = 0
  /\ m_device' = IF m_gvbsim THEN m_doc ELSE m_device
  /\ lifecycle' = IF m_gvbsim THEN Dispatch(lifecycle, "start") ELSE lifecycle
  /\ startQueued' = IF m_gvbsim THEN startQueued + 1 ELSE startQueued
  /\ actStop' = EnteredStop(lifecycle, lifecycle', actStop, m_gvbsim)
  /\ lastAct' = "buildFails"
  /\ UNCHANGED <<history, dlgVars, scrVars, kbdVars, geoVars, m_timerModify,
                 edTimers, m_edits, syncPending, vmMissing>>
  /\ UNCHANGED <<m_gvbsim, m_doc, m_runtimeError, closePending>>
  /\ UNCHANGED <<m_paused, m_execResult, m_execInput, m_timerCursor,
                 m_timerRepaint, timers, pendingExec, sleepTimers, modal,
                 vmSteps, vmStopped, vmInput, devKeyPressed, devKeyBuffered,
                 devCursorOn, devDirty, sleepWakes, program, sleepNs, armedMs,
                 errorsShown, runNotes>>

\* GvbEditor::tryStartPause(this) in Stopped when gvb_document_vm returns
\* Nothing: the message is posted to the MessageBus and the slot returns.
buildFails ==
  /\ UserInputEnabled
  /\ m_doc # 0
  /\ lifecycle = "Stopped"
  /\ errorPosted' = TRUE
  /\ lastAct' = "buildFails"
  /\ UNCHANGED <<lifecycle, history, schedVars, dlgVars, edVars, scrVars,
                 kbdVars, geoVars, m_timerModify, edTimers, m_edits,
                 syncPending, vmMissing>>

\* GvbEditor::load succeeds (a file is opened or dropped while the editor
\* shows a document): the document is destroyed and replaced.
load ==
  /\ UserInputEnabled
  /\ m_doc # 0
  /\ m_doc < MaxDocs
  /\ m_doc' = m_doc + 1
  /\ lastAct' = "load"
  /\ UNCHANGED <<lifecycle, history, schedVars, dlgVars, auxVars, scrVars, m_gvbsim,
                 m_vm, m_device, actStop, m_runtimeError, closePending>>

\* Variant: closeEvent accepts the close and emits nothing.
EmitsStopOnCloseNever == FALSE

\* GvbSimWindow::closeEvent: emit m_editor->stop().
EmitsStopOnClose == TRUE

\* The user closes the simulator window: closeEvent runs the slot stop()
\* through the editor's signal; once it has returned the close is accepted
\* and the window is deleted later.
closeEvent ==
  /\ UserInputEnabled
  /\ m_gvbsim
  /\ ~closePending
  /\ closePending' = TRUE
  /\ IF EmitsStopOnClose
     THEN EmitStop(m_execResult, modal, runNotes)
     ELSE UNCHANGED <<timers, m_timerCursor, m_timerRepaint, m_execResult,
                      sleepNs, runNotes, modal, vmStopped, lifecycle,
                      actStop, updatePending>>
  /\ lastAct' = "closeEvent"
  /\ UNCHANGED <<dlgVars, auxVars, m_gvbsim, m_doc, m_vm, m_device, m_runtimeError,
                 m_dirtyArea, mapped>>
  /\ UNCHANGED <<history, m_paused, m_execInput, pendingExec, sleepTimers,
                 startQueued, vmSteps, vmInput, devKeyPressed, devKeyBuffered,
                 devCursorOn, devDirty, sleepWakes, program, armedMs,
                 errorsShown>>

\* The deferred delete of the closed window is delivered.
GvbSimWindowDestroyed ==
  /\ DeleteDue
  /\ WindowGone
  /\ lastAct' = "GvbSimWindowDestroyed"
  /\ UNCHANGED <<lifecycle, history, program, dlgVars, auxVars, m_doc, m_runtimeError>>

\* ~GvbEditor (the main window replaces or drops its tool): the document is
\* destroyed and the simulator window deleted.  The state machine is a
\* member of the editor; lifecycle keeps the state it was in.
GvbEditorDestroyed ==
  /\ UserInputEnabled
  /\ m_doc # 0
  /\ m_doc' = 0
  /\ WindowGone
  /\ lastAct' = "GvbEditorDestroyed"
  /\ UNCHANGED <<lifecycle, history, program, dlgVars, auxVars, m_runtimeError>>

\* Programs of at most two results, every Sleep of the same duration.
EditorPrograms ==
  { p \in Programs :
      /\ Len(p) <= 2
      /\ \A i \in 1..Len(p) : p[i].tag = "Sleep" => p[i].ns = AnySleep }

\* The editor as constructed, a document loaded, no simulator window.
InitEditor ==
  /\ lifecycle = "Stopped"
  /\ history = <<>>
  /\ lastAct = "init"
  /\ WindowIdle
  /\ NoSimulator("Stopped")
  /\ program \in EditorPrograms
  /\ DlgIdle
  /\ AuxIdle

NextEditor ==
  \/ launchSimulator
  \/ buildFails
  \/ load
  \/ closeEvent
  \/ GvbSimWindowDestroyed
  \/ GvbEditorDestroyed
  \/ tryStartPause
  \/ start
  \/ stop
  \/ stopBoxClosed
  \/ runStep
  \/ inputAccepted
  \/ inputRejected
  \/ sleepExpired
  \/ paintEvent

SpecEditor == InitEditor /\ [][NextEditor]_vars

(***************************************************************************)
(* The document behind the editor: Scintilla reports every text change;    *)
(* the editor buffers it in m_edits and applies the buffer to the document *)
(* when the debounce timer of 400 ms expires.  Choosing a machine name     *)
(* replaces text in the editor and posts syncMachNameEdit.                 *)
(***************************************************************************)
\* QObject::startTimer hands out an id that no running timer has.
FreeEdTimer ==
  CHOOSE i \in 1..MaxEdTimers :
    /\ i \notin edTimers
    /\ \A j \in 1..MaxEdTimers : j \notin edTimers => i <= j

\* The body of GvbEditor::textChanged with m_textLoaded set: the debounce
\* timer is started unless m_timerModify names one; the change is buffered.
BufferChange ==
  /\ m_edits < MaxEdits
  /\ IF m_timerModify = 0
     THEN /\ edTimers # 1..MaxEdTimers
          /\ m_timerModify' = FreeEdTimer
          /\ edTimers' = edTimers \cup {FreeEdTimer}
     ELSE UNCHANGED <<m_timerModify, edTimers>>
  /\ m_edits' = m_edits + 1

\* The user types in the editor: GvbEditor::textChanged.
textChanged ==
  /\ UserInputEnabled
  /\ m_doc # 0
  /\ BufferChange
  /\ lastAct' = "textChanged"
  /\ UNCHANGED <<lifecycle, history, schedVars, dlgVars, edVars, scrVars,
                 kbdVars, geoVars, syncPending, errorPosted, vmMissing>>

\* GvbEditor::setMachineName with an edit to make: replaceTarget changes
\* the text (textChanged runs), syncMachNameEdit is posted as a single shot.
setMachineName ==
  /\ UserInputEnabled
  /\ m_doc # 0
  /\ ~syncPending
  /\ BufferChange
  /\ syncPending' = TRUE
  /\ lastAct' = "setMachineName"
  /\ UNCHANGED <<lifecycle, history, schedVars, dlgVars, edVars, scrVars,
                 kbdVars, geoVars, errorPosted, vmMissing>>

\* GvbEditor::syncMachNameEdit: modified() applies the buffer, recomputes
\* the diagnostics and clears m_timerModify; no timer is killed.
syncMachNameEdit ==
  /\ syncPending
  /\ syncPending' = FALSE
  /\ m_edits' = 0
  /\ m_timerModify' = 0
  /\ lastAct' = "syncMachNameEdit"
  /\ UNCHANGED <<lifecycle, history, schedVars, dlgVars, edVars, scrVars,
                 kbdVars, geoVars, edTimers, errorPosted, vmMissing>>

\* GvbEditor::timerEvent, for any running timer of the editor:
\* killTimer(m_timerModify), m_timerModify = 0, modified().
timerEvent ==
  /\ edTimers # {}
  /\ edTimers' = edTimers \ {m_timerModify}
  /\ m_timerModify' = 0
  /\ m_edits' = 0
  /\ lastAct' = "timerEvent"
  /\ UNCHANGED <<lifecycle, history, schedVars, dlgVars, edVars, scrVars,
                 kbdVars, geoVars, syncPending, errorPosted, vmMissing>>

\* The program of the document ends at its first step.
DocPrograms == { <<Result("End", ZeroNs)>> }

\* The editor as constructed, a document loaded, no simulator window.
InitDoc ==
  /\ lifecycle = "Stopped"
  /\ history = <<>>
  /\ lastAct = "init"
  /\ WindowIdle
  /\ NoSimulator("Stopped")
  /\ program \in DocPrograms
  /\ DlgIdle
  /\ AuxIdle

NextDoc ==
  \/ textChanged
  \/ setMachineName
  \/ syncMachNameEdit
  \/ timerEvent
  \/ launchSimulator
  \/ buildFails
  \/ requestStart
  \/ start
  \/ runStep
  \/ stop
  \/ stopBoxClosed
  \/ paintEvent

SpecDoc == InitDoc /\ [][NextDoc]_vars

(***************************************************************************)
(* The geometry of a partial repaint: the repaint tick marks the dirty     *)
(* rectangle of the device on the screen widget and invalidates a widget   *)
(* rectangle; the paint event draws the marked rectangle of the image      *)
(* through a painter scaled by pixel_scale.                                *)
(***************************************************************************)
\* QRect(const QPoint &topLeft, const QPoint &bottomRight): both corners
\* belong to the rectangle.
QRect(topLeft, bottomRight) ==
  [x1 |-> topLeft[1], y1 |-> topLeft[2],
   x2 |-> bottomRight[1], y2 |-> bottomRight[2]]

\* QRect::width and QRect::height.
Width(r) == r.x2 - r.x1 + 1

Height(r) == r.y2 - r.y1 + 1

\* The pixels of a rectangle.
RectPixels(r) == (r.x1 .. r.x2) \X (r.y1 .. r.y2)

\* The widget region QWidget::update(rect) invalidates; the paint event is
\* clipped to it.
Invalidated(r) == RectPixels(r)

\* GvbSimScreen::paintEvent with a marked rectangle: painter.scale(scale,
\* scale), then drawImage(QPoint(rect.x(), rect.y()), m_img, rect) draws
\* the rect.width() x rect.height() pixels of the image at that point;
\* every image pixel covers scale x scale widget pixels.
DrawnPixels(rect, scale) ==
  ((rect.x1 * scale) .. ((rect.x1 + Width(rect)) * scale - 1))
    \X ((rect.y1 * scale) .. ((rect.y1 + Height(rect)) * scale - 1))

\* The rectangles gvb_device_screen_dirty_area can report.
DirtyRects ==
  { r \in [left : 0..MaxCoord, top : 0..MaxCoord,
           right : 0..MaxCoord, bottom : 0..MaxCoord] :
      r.left <= r.right /\ r.top <= r.bottom }

\* GvbSimWindow::timerEvent for the repaint timer with a dirty area:
\* markDirty(QRect(QPoint(left, top), QPoint(right, bottom))) and
\* update(QRect(QPoint(left * scale, top * scale),
\*              QPoint(right * scale, bottom * scale))).
repaintRect ==
  /\ dirtyRect # <<>>
  /\ markedRect' =
       QRect(<<dirtyRect.left, dirtyRect.top>>,
             <<dirtyRect.right, dirtyRect.bottom>>)
  /\ updateRect' =
       QRect(<<dirtyRect.left * pixel_scale, dirtyRect.top * pixel_scale>>,
             <<dirtyRect.right * pixel_scale, dirtyRect.bottom * pixel_scale>>)
  /\ dirtyRect' = <<>>
  /\ lastAct' = "repaintRect"
  /\ UNCHANGED <<lifecycle, history, schedVars, dlgVars, edVars, scrVars,
                 docVars, kbdVars, pixel_scale>>

\* GvbSimScreen::paintEvent for that update: the marked rectangle is taken
\* (m_dirtyArea = QRect()) and drawn.
paintRect ==
  /\ markedRect # <<>>
  /\ markedRect' = <<>>
  /\ updateRect' = <<>>
  /\ lastAct' = "paintRect"
  /\ UNCHANGED <<lifecycle, history, schedVars, dlgVars, edVars, scrVars,
                 docVars, kbdVars, dirtyRect, pixel_scale>>

\* A running program has written to the screen; the scale is configured.
InitGeo ==
  /\ lifecycle = "Started"
  /\ history = <<>>
  /\ lastAct = "init"
  /\ SchedIdle
  /\ SimulatorLaunched("Started")
  /\ DlgIdle
  /\ DocIdle
  /\ KbdIdle
  /\ dirtyRect \in DirtyRects
  /\ pixel_scale \in 1..MaxScale
  /\ markedRect = <<>>
  /\ updateRect = <<>>

NextGeo ==
  \/ repaintRect
  \/ paintRect

SpecGeo == InitGeo /\ [][NextGeo]_vars

(***************************************************************************)
(* The keys of the simulator: the buttons of the on-screen keyboard carry  *)
(* the device code they inject; a physical key is translated by            *)
(* qtKeyToWqxKey.                                                          *)
(***************************************************************************)
\* KEY_MAPPINGS, the Qt::Key_ names as strings.
KEY_MAPPINGS ==
  [F1 |-> 28, F2 |-> 29, F3 |-> 30, F4 |-> 31,
   O |-> 111, L |-> 108, Up |-> 20, Down |-> 21, P |-> 112, Return |-> 13,
   PageDown |-> 14, Right |-> 22,
   Q |-> 113, W |-> 119, E |-> 101, R |-> 114, T |-> 116, Y |-> 121,
   U |-> 117, I |-> 105,
   A |-> 97, S |-> 115, D |-> 100, F |-> 102, G |-> 103, H |-> 104,
   J |-> 106, K |-> 107,
   Z |-> 122, X |-> 120, C |-> 99, V |-> 118, B |-> 98, N |-> 110,
   M |-> 109, PageUp |-> 19,
   Control |-> 25, Shift |-> 26, CapsLock |-> 18, Escape |-> 27,
   Key_0 |-> 48, Period |-> 46, Space |-> 32, Left |-> 23,
   Key_1 |-> 98, Key_2 |-> 110, Key_3 |-> 109, Key_4 |-> 103,
   Key_5 |-> 104, Key_6 |-> 106, Key_7 |-> 116, Key_8 |-> 121,
   Key_9 |-> 117,
   Enter |-> 13,
   AsciiTilde |-> 18]

\* Physical keys KEY_MAPPINGS has no entry for.
UnmappedKeys == {"Tab", "Backspace", "Home", "Alt", "F5", "Comma"}

QtKeys == DOMAIN KEY_MAPPINGS \cup UnmappedKeys

\* qtKeyToWqxKey: QHash::operator[] yields 0 for a key without an entry.
qtKeyToWqxKey(key) ==
  IF key \in DOMAIN KEY_MAPPINGS THEN KEY_MAPPINGS[key] ELSE 0

\* GvbSimKeyboard::initUi: the buttons by tooltip (the arrows and the space
\* bar by the name of the key their tooltip gives in Chinese), each with
\* the code makeButton is given and the Qt keys its tooltip names.
Buttons ==
  LET b(tip, code, keys) == [tip |-> tip, code |-> code, keys |-> keys]
  IN { b("F1", 28, {"F1"}), b("F2", 29, {"F2"}), b("F3", 30, {"F3"}),
       b("F4", 31, {"F4"}),
       b("Q", 113, {"Q"}), b("W", 119, {"W"}), b("E", 101, {"E"}),
       b("R", 114, {"R"}), b("T / 7", 116, {"T", "Key_7"}),
       b("Y / 8", 121, {"Y", "Key_8"}), b("U / 9", 117, {"U", "Key_9"}),
       b("I", 105, {"I"}), b("O", 111, {"O"}), b("P", 112, {"P"}),
       b("A", 97, {"A"}), b("S", 115, {"S"}), b("D", 100, {"D"}),
       b("F", 102, {"F"}), b("G / 4", 103, {"G", "Key_4"}),
       b("H / 5", 104, {"H", "Key_5"}), b("J / 6", 106, {"J", "Key_6"}),
       b("K", 107, {"K"}), b("L", 108, {"L"}),
       b("Enter", 13, {"Return", "Enter"}),
       b("Z", 122, {"Z"}), b("X", 120, {"X"}), b("C", 120, {"C"}),
       b("V", 118, {"V"}), b("B / 1", 98, {"B", "Key_1"}),
       b("N / 2", 110, {"N", "Key_2"}), b("M / 3", 109, {"M", "Key_3"}),
       b("PageUp", 19, {"PageUp"}), b("Up", 20, {"Up"}),
       b("PageDown", 14, {"PageDown"}),
       b("Ctrl", 25, {"Control"}), b("Shift", 26, {"Shift"}),
       b("CapsLock / ~", 18, {"CapsLock", "AsciiTilde"}),
       b("Esc", 27, {"Escape"}), b("0", 48, {"Key_0"}),
       b(".", 46, {"Period"}), b("Space", 32, {"Space"}),
       b("Left", 23, {"Left"}), b("Down", 21, {"Down"}),
       b("Right", 22, {"Right"}) }

\* GvbSimWindow::keyDown(key) as the key handlers reach it:
\* gvb_device_fire_key_down, and execLater() when the run waits for a key.
FireKeyDown ==
  /\ devKeyPressed' = TRUE
  /\ devKeyBuffered' = TRUE
  /\ IF m_execResult = "InKey"
     THEN /\ pendingExec < MaxPending
          /\ pendingExec' = pendingExec + 1
     ELSE pendingExec' = pendingExec

\* GvbSimWindow::keyUp(key): gvb_device_fire_key_up.
FireKeyUp ==
  /\ devKeyPressed' = FALSE
  /\ UNCHANGED <<devKeyBuffered, pendingExec>>

\* What the four key handlers leave alone.
KeyFrame ==
  UNCHANGED <<lifecycle, history, dlgVars, edVars, scrVars, docVars, geoVars,
              m_paused, m_execResult, m_execInput, m_timerCursor,
              m_timerRepaint, timers, sleepTimers, startQueued, modal,
              vmSteps, vmStopped, vmInput, devCursorOn, devDirty, sleepWakes,
              program, sleepNs, armedMs, errorsShown, runNotes>>

\* GvbSimWindow::keyPressEvent: key = qtKeyToWqxKey(ev->key()); keyDown(key)
\* unless key is 0.
keyPressEvent ==
  /\ UserInputEnabled
  /\ \E k \in QtKeys :
       /\ keySource' = "keyPress"
       /\ keyLabel' = k
       /\ firedKey' = qtKeyToWqxKey(k)
       /\ IF qtKeyToWqxKey(k) # 0
          THEN FireKeyDown
          ELSE UNCHANGED <<devKeyPressed, devKeyBuffered, pendingExec>>
  /\ lastAct' = "keyPressEvent"
  /\ KeyFrame

\* GvbSimWindow::keyReleaseEvent: keyUp(key) unless key is 0.
keyReleaseEvent ==
  /\ UserInputEnabled
  /\ \E k \in QtKeys :
       /\ keySource' = "keyRelease"
       /\ keyLabel' = k
       /\ firedKey' = qtKeyToWqxKey(k)
       /\ IF qtKeyToWqxKey(k) # 0
          THEN FireKeyUp
          ELSE UNCHANGED <<devKeyPressed, devKeyBuffered, pendingExec>>
  /\ lastAct' = "keyReleaseEvent"
  /\ KeyFrame

\* A button made by GvbSimKeyboard::makeButton is pressed: emit keyDown(key),
\* connected to GvbSimWindow::keyDown.
buttonPressed ==
  /\ UserInputEnabled
  /\ \E b \in Buttons :
       /\ keySource' = "buttonPressed"
       /\ keyLabel' = b.tip
       /\ firedKey' = b.code
  /\ FireKeyDown
  /\ lastAct' = "buttonPressed"
  /\ KeyFrame

\* The button is released: emit keyUp(key), connected to
\* GvbSimWindow::keyUp.
buttonReleased ==
  /\ UserInputEnabled
  /\ \E b \in Buttons :
       /\ keySource' = "buttonReleased"
       /\ keyLabel' = b.tip
       /\ firedKey' = b.code
  /\ FireKeyUp
  /\ lastAct' = "buttonReleased"
  /\ KeyFrame

\* The simulator window of a stopped program, no key touched.
InitKbd ==
  /\ lifecycle = "Stopped"
  /\ history = <<>>
  /\ lastAct = "init"
  /\ SchedIdle
  /\ SimulatorLaunched("Stopped")
  /\ DlgIdle
  /\ AuxIdle

NextKbd ==
  \/ keyPressEvent
  \/ keyReleaseEvent
  \/ buttonPressed
  \/ buttonReleased

SpecKbd == InitKbd /\ [][NextKbd]_vars

(***************************************************************************)
(* Runs while the simulator window is minimized and restored: the user     *)
(* starts the program and answers its input dialogs; the window system     *)
(* unmaps and maps the window.  Qt keeps the update requests of a window   *)
(* that is not shown and delivers the paint event once it is shown again.  *)
(***************************************************************************)
\* The simulator window is minimized.
windowMinimized ==
  /\ m_gvbsim
  /\ mapped
  /\ mapped' = FALSE
  /\ lastAct' = "windowMinimized"
  /\ UNCHANGED <<lifecycle, history, schedVars, dlgVars, auxVars, edVars, m_dirtyArea,
                 updatePending>>

\* The simulator window is shown again: it is exposed as a whole.
windowRestored ==
  /\ m_gvbsim
  /\ ~mapped
  /\ mapped' = TRUE
  /\ updatePending' = TRUE
  /\ lastAct' = "windowRestored"
  /\ UNCHANGED <<lifecycle, history, schedVars, dlgVars, auxVars, edVars, m_dirtyArea>>

NextPaint ==
  \/ NextRun
  \/ windowMinimized
  \/ windowRestored

SpecPaint == Init /\ [][NextPaint]_vars

(***************************************************************************)
(* Runs of programs that wait for a key: the user starts the program,      *)
(* pauses and continues it, answers its input dialogs and presses keys,    *)
(* and does not stop it.  The event loop dispatches what is posted to it:  *)
(* the queued start, the callbacks of execLater and expired single shots.  *)
(***************************************************************************)
KeyPrograms ==
  { p \in Programs :
      /\ p[Len(p)].tag = "InKey"
      /\ \A i \in 1..Len(p) : p[i].tag = "Sleep" => p[i].ns = AnySleep }

InitKeys ==
  /\ lifecycle = "Stopped"
  /\ history = <<>>
  /\ lastAct = "init"
  /\ WindowIdle
  /\ SimulatorLaunched("Stopped")
  /\ program \in KeyPrograms
  /\ DlgIdle
  /\ AuxIdle

NextKeys ==
  \/ tryStartPause
  \/ start
  \/ runStep
  \/ inputAccepted
  \/ sleepExpired
  \/ keyDown
  \/ keyUp
  \/ cursorTick
  \/ repaintTick
  \/ paintEvent

EventLoopFair ==
  /\ WF_vars(start)
  /\ WF_vars(paintEvent)
  /\ WF_vars(runStep)
  /\ WF_vars(sleepExpired)

SpecKeys == InitKeys /\ [][NextKeys]_vars /\ EventLoopFair

(***************************************************************************)
(* Runs to the end: the user starts the program, pauses and continues it   *)
(* and presses keys, and does nothing more once the engine has reported    *)
(* End or Error.  Stop is never requested, so the result is End or Error   *)
(* only when a step returned it.                                           *)
(***************************************************************************)
\* Programs of at most two results that end by themselves.
EndPrograms ==
  LET goesOn == {Result("Continue", ZeroNs), Result("Sleep", AnySleep),
                 Result("InKey", ZeroNs)}
      last   == {Result(t, ZeroNs) : t \in {"End", "Error"}}
  IN UNION { { p \in [1..n -> goesOn \cup last] :
                 /\ \A i \in 1..(n - 1) : p[i] \in goesOn
                 /\ p[n] \in last } : n \in 1..2 }

\* A step has returned End or Error.
StepEnded == m_execResult \in {"End", "Error"}

InitEnd ==
  /\ lifecycle = "Stopped"
  /\ history = <<>>
  /\ lastAct = "init"
  /\ WindowIdle
  /\ SimulatorLaunched("Stopped")
  /\ program \in EndPrograms
  /\ DlgIdle
  /\ AuxIdle

NextEnd ==
  \/ ~StepEnded /\ tryStartPause
  \/ ~StepEnded /\ keyDown
  \/ ~StepEnded /\ keyUp
  \/ start
  \/ runStep
  \/ sleepExpired
  \/ cursorTick
  \/ repaintTick
  \/ paintEvent

SpecEnd == InitEnd /\ [][NextEnd]_vars /\ EventLoopFair

(***************************************************************************)
(* GvbSimInputDialog                                                       *)
(***************************************************************************)
FieldTypes == {"Integer", "Real", "String", "Func"}

\* Alternative of the std::variant InputField that initUi stores for a
\* descriptor (in_place_index<0..3>).
VariantIndex(t) ==
  CASE t = "Integer" -> 0
    [] t = "Real"    -> 1
    [] t = "String"  -> 2
    [] t = "Func"    -> 3

\* What the user can have typed into the widget of a field: a spin box only
\* holds numbers of its range; a line edit holds a text that encodes to at
\* most 255 bytes ("ok"), to more than 255 bytes ("toolong") or not at all
\* ("badchar"); a function body compiles ("ok") or does not ("err").
Texts(t) ==
  CASE t = "Integer" -> {"0", "1"}
    [] t = "Real"    -> {"0", "1"}
    [] t = "String"  -> {"ok", "toolong", "badchar"}
    [] t = "Func"    -> {"ok", "err"}

\* The value of a spin box (input->value()).
NumOf(x) == IF x = "1" THEN 1 ELSE 0

\* The field's editingFinished handler accepts the text.
TextValid(t, x) == t \in {"Integer", "Real"} \/ x = "ok"

\* The handler obtains a value from the engine (gvb_utf16_to_byte_string
\* returned Right, gvb_compile_fn_body returned a body).
ObtainsValue(t, x) == t \in {"String", "Func"} /\ ~(t = "String" /\ x = "badchar")

\* The handler reaches a call of fieldValidated: the String handler returns
\* before it when the text cannot be encoded.
ReportsCompletion(t, x) == ~(t = "String" /\ x = "badchar")

\* The entry initUi stores in m_input for a descriptor.
InitialField(t) == [idx |-> VariantIndex(t), num |-> 0, res |-> 0]

FieldSeqs ==
  UNION { [1..n -> FieldTypes] : n \in 1..MaxFields }

\* api::destroy_byte_string / api::gvb_destroy_fn_body; destroying the null
\* value releases nothing.
Release(rel, id) == IF id = 0 THEN rel ELSE [rel EXCEPT ![id] = @ + 1]

RECURSIVE ReleaseAll(_, _)
ReleaseAll(rel, ids) ==
  IF ids = <<>> THEN rel
  ELSE ReleaseAll(Release(rel, Head(ids)), Tail(ids))

\* Variant: the destructor destroys the byte strings only.
DestroyedByDialogStringsOnly(rejected, input) ==
  IF rejected
  THEN [i \in 1..Len(input) |->
          IF input[i].idx = 2 THEN input[i].res ELSE 0]
  ELSE <<>>

\* GvbSimInputDialog::~GvbSimInputDialog: the values the destructor destroys.
DestroyedByDialog(rejected, input) ==
  IF rejected
  THEN [i \in 1..Len(input) |->
          IF input[i].idx \in {2, 3} THEN input[i].res ELSE 0]
  ELSE <<>>

\* GvbSimInputDialog::inputData.
inputData(input) ==
  [i \in 1..Len(input) |->
     [tag |-> CASE input[i].idx = 0 -> "Integer"
                [] input[i].idx = 1 -> "Real"
                [] input[i].idx = 2 -> "String"
                [] input[i].idx = 3 -> "Func",
      num |-> input[i].num,
      res |-> input[i].res]]

\* Variant: accept() requires more successes than completions.
AllReportedOkStrict(okFields, validatedFields) == okFields > validatedFields

\* The test of endValidateAll that leads to accept().
AllReportedOk(okFields, validatedFields) == okFields = validatedFields

\* GvbSimInputDialog::endValidateAll on the dialog's counters
\* st = [va, vf, vo, result].
endValidateAll(st) ==
  [va |-> FALSE, vf |-> 0, vo |-> 0,
   result |-> IF AllReportedOk(st.vo, st.vf) THEN "Accepted" ELSE st.result]

\* Variant: the completion count is compared before it is incremented
\* (m_validatedFields++ == size).
fieldValidatedPostIncrement(ok, st, n) ==
  IF ~st.va THEN st
  ELSE LET counted == [st EXCEPT !.vo = IF ok THEN @ + 1 ELSE @,
                                   !.vf = @ + 1]
       IN IF st.vf = n THEN endValidateAll(counted) ELSE counted

\* GvbSimInputDialog::fieldValidated(ok) for a dialog of n fields.
fieldValidated(ok, st, n) ==
  IF ~st.va THEN st
  ELSE LET counted == [st EXCEPT !.vo = IF ok THEN @ + 1 ELSE @,
                                   !.vf = @ + 1]
       IN IF counted.vf = n THEN endValidateAll(counted) ELSE counted

DlgOpen == ~dlgClosed /\ dlgResult = "None"

\* User input reaches the dialog only when no posted handler is pending.
DlgInputEnabled == DlgOpen /\ queue = <<>>

\* The dialog as GvbSimInputDialog's constructor leaves it.
InitDlg ==
  /\ lifecycle = "Started"
  /\ history = <<>>
  /\ lastAct = "init"
  /\ SchedIdle
  /\ SimulatorLaunched("Started")
  /\ AuxIdle
  /\ fields \in FieldSeqs
  /\ text \in [1..Len(fields) -> {"0", "ok", "err"}]
  /\ \A i \in 1..Len(fields) : text[i] \in Texts(fields[i])
  /\ msg = [i \in 1..Len(fields) |-> " "]
  /\ m_input = [i \in 1..Len(fields) |-> InitialField(fields[i])]
  /\ m_validateAll = FALSE
  /\ m_validatedFields = 0
  /\ m_validateOkFields = 0
  /\ m_rejected = FALSE
  /\ dlgResult = "None"
  /\ dlgClosed = FALSE
  /\ queue = <<>>
  /\ nextRes = 1
  /\ released = [r \in 1..MaxRes |-> 0]
  /\ engineInput = <<>>
  /\ tally = [i \in 1..Len(fields) |-> 0]
  /\ staleCounted = FALSE
  /\ roundValid = FALSE

\* The user changes the content of field i.
edit ==
  /\ DlgInputEnabled
  /\ \E i \in 1..Len(fields) : \E x \in Texts(fields[i]) :
       /\ x # text[i]
       /\ text' = [text EXCEPT ![i] = x]
  /\ lastAct' = "edit"
  /\ UNCHANGED <<lifecycle, history, schedVars, edVars, scrVars, auxVars, fields, msg, m_input,
                 m_validateAll, m_validatedFields, m_validateOkFields,
                 m_rejected, dlgResult, dlgClosed, queue, nextRes, released,
                 engineInput, tally, staleCounted>>
  /\ roundValid' = FALSE

Posted(i, src) == [f |-> i, src |-> src, stale |-> FALSE]

\* Field i loses the focus: its widget emits editingFinished, the handler is
\* posted (Qt::QueuedConnection).
focusOut ==
  /\ DlgInputEnabled
  /\ \E i \in 1..Len(fields) : queue' = Append(queue, Posted(i, "field"))
  /\ lastAct' = "focusOut"
  /\ roundValid' = FALSE
  /\ UNCHANGED <<lifecycle, history, schedVars, edVars, scrVars, auxVars, fields, text, msg, m_input,
                 m_validateAll, m_validatedFields, m_validateOkFields,
                 m_rejected, dlgResult, dlgClosed, nextRes, released,
                 engineInput, tally, staleCounted>>

\* GvbSimInputDialog::startValidateAll on the queue q: the flag is set, the
\* counters are cleared and validateAll is emitted, which is connected to
\* the editingFinished signal of every field.
startValidateAll(q) ==
  /\ m_validateAll' = TRUE
  /\ m_validatedFields' = 0
  /\ m_validateOkFields' = 0
  /\ queue' = [k \in 1..Len(q) |-> [q[k] EXCEPT !.stale = TRUE]]
              \o [i \in 1..Len(fields) |-> Posted(i, "all")]
  /\ tally' = [i \in 1..Len(fields) |-> 0]
  /\ staleCounted' = FALSE
  /\ roundValid' = \A i \in 1..Len(fields) : TextValid(fields[i], text[i])

\* The OK button is clicked or its shortcut Ctrl+Return is pressed.
submitAll ==
  /\ DlgInputEnabled
  /\ startValidateAll(queue)
  /\ lastAct' = "submitAll"
  /\ UNCHANGED <<lifecycle, history, schedVars, edVars, scrVars, auxVars, fields, text, msg, m_input,
                 m_rejected, dlgResult, dlgClosed, nextRes, released,
                 engineInput>>

\* Return or Enter is pressed while field i has the focus: the widget emits
\* editingFinished and leaves the key event to the dialog, whose
\* keyPressEvent calls startValidateAll.
enterInField ==
  /\ DlgInputEnabled
  /\ \E i \in 1..Len(fields) :
       startValidateAll(Append(queue, Posted(i, "field")))
  /\ lastAct' = "enterInField"
  /\ UNCHANGED <<lifecycle, history, schedVars, edVars, scrVars, auxVars, fields, text, msg, m_input,
                 m_rejected, dlgResult, dlgClosed, nextRes, released,
                 engineInput>>

\* The posted editingFinished handler of a field runs (the lambdas connected
\* in initUi).  Handlers still posted when accept() was called run as long
\* as exec() has not returned.
editingFinished ==
  /\ ~dlgClosed
  /\ dlgResult # "Rejected"
  /\ queue # <<>>
  /\ LET i   == Head(queue).f
         t   == fields[i]
         x   == text[i]
         ok  == TextValid(t, x)
         st  == [va |-> m_validateAll, vf |-> m_validatedFields,
                 vo |-> m_validateOkFields, result |-> dlgResult]
         st2 == IF ReportsCompletion(t, x)
                THEN fieldValidated(ok, st, Len(m_input)) ELSE st
         counts == ReportsCompletion(t, x) /\ m_validateAll
     IN /\ ObtainsValue(t, x) => nextRes <= MaxRes
        /\ queue' = Tail(queue)
        /\ nextRes' = IF ObtainsValue(t, x) THEN nextRes + 1 ELSE nextRes
        /\ m_input' =
             IF ~ok THEN m_input
             ELSE IF t \in {"Integer", "Real"}
             THEN [m_input EXCEPT ![i] = [idx |-> VariantIndex(t),
                                          num |-> NumOf(x), res |-> 0]]
             ELSE [m_input EXCEPT ![i] = [idx |-> VariantIndex(t),
                                          num |-> 0, res |-> nextRes]]
        /\ released' =
             IF ~ObtainsValue(t, x) THEN released
             ELSE IF ok THEN Release(released, m_input[i].res)
             ELSE Release(released, nextRes)
        /\ msg' = IF t \in {"Integer", "Real"} THEN msg
                  ELSE [msg EXCEPT ![i] = IF ok THEN "" ELSE "error"]
        /\ m_validateAll' = st2.va
        /\ m_validatedFields' = st2.vf
        /\ m_validateOkFields' = st2.vo
        /\ dlgResult' = st2.result
        /\ tally' = IF counts THEN [tally EXCEPT ![i] = @ + 1] ELSE tally
        /\ staleCounted' = (staleCounted \/ (counts /\ Head(queue).stale))
  /\ lastAct' = "editingFinished"
  /\ UNCHANGED <<lifecycle, history, schedVars, edVars, scrVars, auxVars, fields, text, m_rejected,
                 dlgClosed, engineInput, roundValid>>

\* Escape, the Cancel button or closing the dialog: GvbSimInputDialog::reject.
reject ==
  /\ DlgInputEnabled
  /\ m_rejected' = TRUE
  /\ dlgResult' = "Rejected"
  /\ lastAct' = "reject"
  /\ roundValid' = FALSE
  /\ UNCHANGED <<lifecycle, history, schedVars, edVars, scrVars, auxVars, fields, text, msg, m_input,
                 m_validateAll, m_validatedFields, m_validateOkFields,
                 dlgClosed, queue, nextRes, released, engineInput, tally,
                 staleCounted>>

\* exec() returns to the KeyboardInput case of the scheduler callback: an
\* accepted dialog's inputData() goes to gvb_new_input_array; the dialog is
\* destroyed at the end of the block, handlers still posted are dropped.
dialogReturn ==
  /\ ~dlgClosed
  /\ dlgResult # "None"
  /\ dlgClosed' = TRUE
  /\ queue' = <<>>
  /\ engineInput' = IF dlgResult = "Accepted" THEN inputData(m_input)
                    ELSE <<>>
  /\ released' = ReleaseAll(released, DestroyedByDialog(m_rejected, m_input))
  /\ lastAct' = "dialogReturn"
  /\ UNCHANGED <<lifecycle, history, schedVars, edVars, scrVars, auxVars, fields, text, msg, m_input,
                 m_validateAll, m_validatedFields, m_validateOkFields,
                 m_rejected, dlgResult, nextRes, tally, staleCounted,
                 roundValid>>

NextDlg ==
  \/ edit
  \/ focusOut
  \/ submitAll
  \/ enterInField
  \/ editingFinished
  \/ reject
  \/ dialogReturn

SpecDlg == InitDlg /\ [][NextDlg]_vars

(***************************************************************************)
(* Properties                                                              *)
(***************************************************************************)
\* The transition table of the lifecycle as the specification states it.
TableTarget(s, ev) ==
  CASE s = "Stopped" /\ ev = "start" -> "Started"
    [] s = "Started" /\ ev = "pause" -> "Paused"
    [] s = "Paused"  /\ ev = "cont"  -> "Started"
    [] s = "Started" /\ ev = "stop"  -> "Stopped"
    [] s = "Paused"  /\ ev = "stop"  -> "Stopped"
    [] OTHER -> s

RECURSIVE Replay(_, _)
Replay(s, evs) ==
  IF evs = <<>> THEN s ELSE Replay(TableTarget(s, Head(evs)), Tail(evs))

EngineAndDevice == <<vmSteps, vmStopped, vmInput, devKeyPressed,
                     devKeyBuffered, devCursorOn, devDirty>>

\* C1: after any sequence of start/pause/cont/stop events applied from
\* Stopped, the active state is the fold of the transition table over the
\* sequence (an event without a matching edge changes nothing, one event
\* takes at most one edge), and it is one of the three states.
C1_ReplayFoldsTable ==
  /\ lifecycle \in States
  /\ lifecycle = Replay("Stopped", history)

\* C1 witness: a replay in which pause and start arrive out of order and
\* are dropped.
C1_Witness ==
  /\ history = <<"pause", "start", "pause", "start">>
  /\ lifecycle = "Paused"

\* C2: gvb_vm_exec is called only while the lifecycle state is Started.
C2_StepOnlyWhileStarted ==
  [][vmSteps' = vmSteps + 1 => lifecycle = "Started"]_vars

\* C3: once stop has been handled, the state is Stopped and, for as long as
\* it stays Stopped, neither the cursor-blink timer nor the repaint timer
\* is active.
C3_StoppedTimersInactive ==
  lifecycle = "Stopped" => m_timerCursor = 0 /\ m_timerRepaint = 0

\* C4: a runStep callback that runs while the scheduler is paused (m_paused
\* set, or the lifecycle state Paused) changes neither the engine nor the
\* device.
C4_PausedRunStepNoEffect ==
  [][((m_paused \/ lifecycle = "Paused") /\ runStep)
       => UNCHANGED EngineAndDevice]_vars

\* C4 witness: the callback has run while the scheduler was paused.
C4_Witness ==
  /\ m_paused
  /\ lifecycle = "Paused"
  /\ lastAct = "runStep"
  /\ vmSteps > 0

\* C5: the expiries of the timers armed for one Sleep result schedule
\* runStep, and so a step, at most once, whatever events were handled while
\* a timer was armed.
C5_OneWakePerSleep == sleepWakes <= 1

\* C6: while the last result is InKey and no key is buffered, runStep
\* leaves the result at InKey and steps nothing, and at most one
\* cursor-blink timer exists.
C6_OneBlinkTimer ==
  /\ [][(m_execResult = "InKey" /\ ~devKeyBuffered /\ runStep)
          => (m_execResult' = "InKey" /\ vmSteps' = vmSteps)]_vars
  /\ [](Cardinality(LiveTimers("cursor")) <= 1)

AllFieldsValid == \A i \in 1..Len(fields) : TextValid(fields[i], text[i])

\* C7: once the handlers posted by a submit-all that found every field
\* valid have run, the dialog is Accepted; and the inputData() of an
\* accepted dialog holds one value per descriptor, of the descriptor's
\* type, in descriptor order.
C7_SubmitAllValidAccepts ==
  /\ (roundValid /\ queue = <<>> /\ ~dlgClosed) => dlgResult = "Accepted"
  /\ (dlgClosed /\ dlgResult = "Accepted") =>
       /\ Len(engineInput) = Len(fields)
       /\ \A i \in 1..Len(fields) : engineInput[i].tag = fields[i]

\* C7 witness: a two-field dialog with a string and a function field was
\* accepted by a submit-all and its values were handed over.
C7_Witness ==
  /\ dlgClosed
  /\ dlgResult = "Accepted"
  /\ roundValid
  /\ fields = <<"String", "Func">>
  /\ engineInput[1].res # 0
  /\ engineInput[2].res # 0

\* C8: the dialog is never Accepted while a field holds an invalid text.
C8_InvalidNeverAccepted ==
  dlgResult = "Accepted" => AllFieldsValid

\* C9: the dialog is Accepted only by a round that counted every field
\* exactly once and counted no validation posted before the round began.
C9_TallyOncePerField ==
  dlgResult = "Accepted" =>
    /\ \A i \in 1..Len(fields) : tally[i] = 1
    /\ ~staleCounted

Held == {m_input[i].res : i \in 1..Len(m_input)} \ {0}

\* C10: no engine value obtained by the dialog is destroyed twice; while
\* the dialog lives, the values m_input holds are not destroyed and every
\* other value obtained has been destroyed once; after a rejected dialog is
\* gone every value obtained has been destroyed once and none was handed to
\* the engine.
C10_RejectedValuesReleasedOnce ==
  /\ \A r \in 1..MaxRes : released[r] <= 1
  /\ \A r \in 1..MaxRes : r >= nextRes => released[r] = 0
  /\ ~dlgClosed =>
       \A r \in 1..(nextRes - 1) :
         released[r] = IF r \in Held THEN 0 ELSE 1
  /\ (dlgClosed /\ dlgResult = "Rejected") =>
       /\ \A r \in 1..(nextRes - 1) : released[r] = 1
       /\ engineInput = <<>>

\* C10 witness: a dialog that held a byte string and a function body, and
\* had replaced a value before, was rejected and destroyed.
C10_Witness ==
  /\ dlgClosed
  /\ dlgResult = "Rejected"
  /\ fields = <<"String", "Func">>
  /\ m_input[1].res # 0
  /\ m_input[2].res # 0
  /\ nextRes = 4

\* A handler of the only field of a one-field dialog runs on a valid text
\* while the dialog is open.
SingleFieldValidated ==
  /\ Len(fields) = 1
  /\ dlgResult = "None"
  /\ TextValid(fields[1], text[1])
  /\ editingFinished

\* C11 as stated: in a one-field dialog every successful validation of the
\* field, whether triggered by focus-out or by Enter, accepts the dialog.
C11_SingleFieldValidationAccepts ==
  [][SingleFieldValidated => dlgResult' = "Accepted"]_vars

\* C11 amended: in a one-field dialog a successful validation of the field
\* accepts the dialog exactly when a submit round is open; Enter in the
\* field opens the round itself, ahead of the field's posted handler, so it
\* needs no separate submit-all step, while a validation triggered by
\* focus-out with no round open leaves the dialog open.
C11_SingleFieldEnterAccepts ==
  /\ [][SingleFieldValidated => (dlgResult' = "Accepted" <=> m_validateAll)]_vars
  /\ [][(Len(fields) = 1 /\ enterInField)
          => (m_validateAll' /\ Head(queue').src = "field")]_vars

\* C11 witness: Enter in the only field was accepted by the field's own
\* handler; the handler posted by the round itself is still pending.
C11_Witness ==
  /\ Len(fields) = 1
  /\ dlgResult = "Accepted"
  /\ ~dlgClosed
  /\ queue = <<Posted(1, "all")>>

\* The program whose first k batches report Continue and whose next batch
\* reports End.
ContinueThenEnd(k) ==
  [i \in 1..(k + 1) |->
     IF i <= k THEN Result("Continue", ZeroNs) ELSE Result("End", ZeroNs)]

\* C12 as stated: in an undisturbed run of a program that reports Continue
\* for 3 batches and then End, no more than 3 step calls are made, and once
\* they are made and the callback has run the state is Stopped.
C12_ThreeStepsThenStop ==
  program = ContinueThenEnd(3) =>
    /\ vmSteps <= 3
    /\ (vmSteps = 3 /\ pendingExec = 0 /\ startQueued = 0) =>
         lifecycle = "Stopped"

\* C12 amended: in an undisturbed run of that program the scheduler makes
\* exactly 4 step calls, one for each batch that reports Continue and one
\* for the batch that reports End; the callback that finds End raises stop,
\* the state ends at Stopped (until the user starts the program again), and
\* stop is not raised before the 4th call.
C12_FourStepsThenStop ==
  program = ContinueThenEnd(3) =>
    /\ vmSteps <= 4
    /\ (vmSteps = 4 /\ pendingExec = 0 /\ startQueued = 0) =>
         (lifecycle = "Stopped" /\ m_execResult = "End")
    /\ (lifecycle = "Stopped" /\ vmSteps > 0) => vmSteps = 4

\* C12 witness: the run of that program is over.
C12_Witness ==
  /\ program = ContinueThenEnd(3)
  /\ lifecycle = "Stopped"
  /\ m_execResult = "End"
  /\ vmSteps = 4
  /\ pendingExec = 0

\* ns rounded to the nearest millisecond, as a number of milliseconds.
Rounded(ns) ==
  IF ns.rem + HalfMs < NsPerMs THEN [hi |-> ns.hi, lo |-> ns.lo]
  ELSE MsSucc(ns)

\* C13: whenever sleep() arms its single shot for a Sleep of ns nanoseconds,
\* the delay it passes is ns rounded to the nearest millisecond; and no
\* step call is made while a single shot armed by sleep() has not expired.
C13_SleepRoundsToMs ==
  /\ [][sleepTimers' = sleepTimers + 1
          => /\ armedMs'[1] >= 0
             /\ Rounded(sleepNs) = [hi |-> 0, lo |-> armedMs'[1]]]_vars
  /\ [][sleepTimers > 0 => vmSteps' <= vmSteps]_vars

\* The first half of C13 for the durations of less than 2^31 milliseconds.
C13_RoundsWithinInt ==
  [][(sleepTimers' = sleepTimers + 1 /\ NsLess(sleepNs, Ns(IntMax, HalfMs)))
       => Rounded(sleepNs) = [hi |-> 0, lo |-> armedMs'[1]]]_vars

\* Sleep(1'500'000) has armed a single shot of 2 ms.
C13_Example ==
  /\ sleepTimers = 1
  /\ sleepNs = Ns(1, 500000)
  /\ armedMs = <<2>>

\* The callback runs, unpaused, on the result Error.
HandlesError == m_execResult = "Error" /\ ~m_paused /\ runStep

\* C14: the callback that finds the result Error forwards it to
\* GvbEditor::showRuntimeError, once, and raises stop, which leaves the
\* state Stopped and the result End; nothing else forwards an error; and
\* after an error was forwarded no step call is made before the next
\* start().
C14_ErrorForwardedOnce ==
  /\ [][HandlesError => /\ errorsShown' = errorsShown + 1
                        /\ lifecycle' = "Stopped"
                        /\ m_execResult' = "End"]_vars
  /\ [][errorsShown' > errorsShown => HandlesError]_vars
  /\ [](errorsShown <= 1)
  /\ [][errorsShown > 0 => vmSteps' <= vmSteps]_vars

\* C15: dismissing the input dialog makes no step call and forwards no
\* error; from then until the next start() no step call is made and no
\* error is forwarded; and once stop() has returned the state is Stopped.
C15_DismissalStops ==
  /\ [][inputRejected => /\ vmSteps' = vmSteps
                         /\ errorsShown' = errorsShown]_vars
  /\ [][("dismissed" \in runNotes)
          => (vmSteps' <= vmSteps /\ errorsShown' <= errorsShown)]_vars
  /\ []((("dismissed" \in runNotes) /\ modal = <<>> /\ startQueued = 0)
          => lifecycle = "Stopped")

\* C16: between two handlers the pending ExecInput is None; the step made
\* when the dialog was accepted receives the KeyboardInput, the step made
\* on the result InKey receives the assigned key, and every other step
\* receives None.
C16_InputToNextStepOnly ==
  /\ [](m_execInput = "None")
  /\ [][vmSteps' = vmSteps + 1
          => vmInput' = IF inputAccepted THEN "KeyboardInput"
                        ELSE IF m_execResult = "InKey" THEN "Key"
                        ELSE "None"]_vars

\* C16 witness: the values of an accepted dialog were handed to the step
\* and are no longer pending.
C16_Witness ==
  /\ lastAct = "inputAccepted"
  /\ vmInput = "KeyboardInput"
  /\ m_execInput = "None"
  /\ vmSteps >= 2

\* The error box of stop() is open.
StopReportOpen ==
  /\ modal # <<>>
  /\ modal[Len(modal)] \in {"msgbox", "msgboxThenStop"}

\* C20: stop() on a result other than End calls gvb_vm_stop and, when it
\* returns, has set the result to End; when gvb_vm_stop failed, no step
\* call is made while the error box is open nor afterwards, until the next
\* start(), and once the box is closed the state is Stopped.
C20_StopErrorEndsRun ==
  /\ [][(stop /\ m_execResult # "End")
          => (vmStopped' /\ (StopReportOpen' \/ m_execResult' = "End"))]_vars
  /\ [][stopBoxClosed => m_execResult' = "End"]_vars
  /\ [][(StopReportOpen \/ ("stopFailed" \in runNotes))
          => vmSteps' <= vmSteps]_vars
  /\ []((("stopFailed" \in runNotes) /\ modal = <<>> /\ startQueued = 0)
          => lifecycle = "Stopped")

\* GvbSimWindow::stop runs: as the slot of the stop action, or on the stop
\* the callback raises at End, at Error or for a dismissed dialog.
StopRuns ==
  \/ stop
  \/ inputRejected
  \/ (runStep /\ ~m_paused /\ m_execResult \in {"End", "Error"})

C18_BlinkOnlyWhileWaitingForInput ==
  (m_timerCursor # 0 \/ LiveTimers("cursor") # {})
    => m_execResult \in {"InKey", "KeyboardInput"}

\* The device as far as keys, the caret and the screen change it.
Device == <<devKeyPressed, devKeyBuffered, devCursorOn, devDirty>>

\* A handler of the scheduler or of the key and blink events runs.
SchedulerOrInput ==
  \/ runStep
  \/ inputAccepted
  \/ sleepExpired
  \/ keyDown
  \/ keyUp
  \/ cursorTick

\* C19: the scheduler's callbacks, key-down and key-up events and blink
\* ticks change the device only while the state is Started.
C19_DeviceOnlyWhileStarted ==
  [][(lifecycle # "Started" /\ SchedulerOrInput) => UNCHANGED Device]_vars

\* The part of C19 about blink ticks: a tick in Paused changes nothing.
C19_BlinkFrozenWhilePaused ==
  [][(lifecycle = "Paused" /\ cursorTick) => UNCHANGED Device]_vars

\* The structured-input dialog is open: exec() of the KeyboardInput case has
\* not returned.
InputDialogOpen == \E i \in 1..Len(modal) : modal[i] = "dlg"

\* C21: from the opening of the input dialog until exec() returns, no step
\* call is made and the last result does not change.
C21_DialogBlocksScheduler ==
  [][(InputDialogOpen /\ ~inputAccepted /\ ~inputRejected)
       => (vmSteps' = vmSteps /\ m_execResult' = m_execResult)]_vars

\* C24: the delay sleep() arms is never below the timer resolution of one
\* millisecond, whatever the length of the Sleep.
C24_SleepDelayFloor ==
  [][sleepTimers' = sleepTimers + 1 => armedMs'[1] >= 1]_vars

\* The part of C24 about the run going on: a Sleep of zero length is no
\* error, and its expiry sets the result to Continue and posts the callback.
C24_ZeroSleepGoesOn ==
  /\ [][(runStep /\ m_execResult = "Sleep" /\ ~m_paused)
          => (errorsShown' = errorsShown /\ lifecycle' = lifecycle)]_vars
  /\ [][sleepExpired
          => (m_execResult' = "Continue" /\ pendingExec' = pendingExec + 1)]_vars

\* A Sleep too long for an int has armed a negative delay.
C24_NegativeDelayArmed == armedMs # <<>> /\ armedMs[1] < 0

\* The run waits for a key, a key is buffered in the device and the
\* scheduler is not paused.
KeyAwaitedAndBuffered ==
  /\ lifecycle = "Started"
  /\ ~m_paused
  /\ m_execResult = "InKey"
  /\ devKeyBuffered

\* The latest step received the key, and the blink timer was stopped.
KeyDelivered ==
  /\ vmInput = "Key"
  /\ m_timerCursor = 0

\* C26: when the run is Started and suspended on InKey, a key-down leads to
\* a step call that receives the key, made with the blink timer stopped,
\* unless the user pauses first; a key-down while Paused stays buffered, so
\* the same holds from the next cont on.
C26_KeyLeadsToStep ==
  /\ (KeyAwaitedAndBuffered ~> (KeyDelivered \/ m_paused))
  /\ [][(keyDown /\ m_execResult = "InKey")
          => (devKeyBuffered' /\ pendingExec' = pendingExec + 1)]_vars
  /\ [][(m_paused /\ devKeyBuffered /\ ~start) => devKeyBuffered']_vars
  /\ [][vmInput' = "Key" /\ vmSteps' = vmSteps + 1 => m_timerCursor' = 0]_vars

\* C27: a repaint tick that samples a dirty rectangle hands it to the
\* screen widget and requests a repaint, and the rectangle sampled before
\* it has been painted by then (it is neither dropped nor replaced); a tick
\* that finds no dirty rectangle changes nothing at the screen widget.
C27_SampledRectanglesPainted ==
  /\ [][(repaintTick /\ devDirty)
          => (m_dirtyArea = 0 /\ m_dirtyArea' = 1 /\ updatePending')]_vars
  /\ [][(repaintTick /\ ~devDirty)
          => UNCHANGED <<m_dirtyArea, updatePending>>]_vars
  /\ [][paintEvent => m_dirtyArea' = 0]_vars

\* C22: the simulator holds no engine and no device of a document the
\* editor no longer holds (a new file was loaded, the window was closed,
\* the editor was destroyed), and none once the window is gone.
C22_NoEngineOfPreviousDocument ==
  /\ m_vm \in {0, m_doc}
  /\ m_device \in {0, m_doc}
  /\ ~m_gvbsim => (m_vm = 0 /\ m_device = 0)

\* The state machine of a living editor is in Started or Paused.
Running == m_doc # 0 /\ lifecycle \in {"Started", "Paused"}

FirstStep == vmSteps = 0 /\ vmSteps' = 1

\* C28: when the first step of a run is issued, the engine has been reset
\* and not stopped since, the last result is Continue, no ExecInput is
\* pending or handed over, the window is not paused and the repaint timer
\* is active.
C28_FirstStepFromResetState ==
  [][FirstStep =>
       /\ m_execResult = "Continue"
       /\ m_execInput = "None"
       /\ vmInput' = "None"
       /\ ~m_paused
       /\ ~vmStopped
       /\ m_timerRepaint # 0
       /\ timers[m_timerRepaint] = "repaint"]_vars

\* C29: cont() clears the paused flag and schedules one callback; the
\* engine, the device, the last result and the pending ExecInput are after
\* it what they were before it.
C29_ContKeepsSuspendReason ==
  [][cont =>
       /\ ~m_paused'
       /\ pendingExec' = pendingExec + 1
       /\ UNCHANGED <<EngineAndDevice, m_execResult, sleepNs, m_execInput>>
       /\ UNCHANGED <<m_timerCursor, m_timerRepaint, timers, sleepTimers>>]_vars

\* cont has just resumed a run that was paused while it waited for a key.
C29_Witness ==
  /\ lastAct = "tryStartPause"
  /\ lifecycle = "Started"
  /\ startQueued = 0
  /\ ~m_paused
  /\ m_execResult = "InKey"
  /\ vmSteps > 0
  /\ pendingExec > 0

\* Nothing of the scheduler is pending: no queued start, no callback of
\* execLater, no single shot of sleep(), no blink and no repaint timer.
Quiescent ==
  /\ startQueued = 0
  /\ pendingExec = 0
  /\ sleepTimers = 0
  /\ LiveTimers("cursor") = {}
  /\ LiveTimers("repaint") = {}

\* C30: once a step has returned End or Error, and the user does nothing
\* more, the state becomes Stopped and the scheduler quiescent.
C30_EndLeadsToQuiescence ==
  StepEnded ~> (lifecycle = "Stopped" /\ Quiescent)

\* C31: at most one invocation of the scheduler callback is outstanding,
\* the zero-delay single shots of execLater and the single shots armed by
\* sleep() counted together.
C31_OneRunStepOutstanding == pendingExec + sleepTimers <= 1

\* C32: the expiry of a single shot armed by sleep() sets the result to
\* Continue only when the result is still Sleep, and in the run that armed
\* it: the state machine is not Stopped and no start is waiting for
\* delivery.
C32_ExpiryOnlyOnItsSleep ==
  [][sleepExpired =>
       /\ m_execResult = "Sleep"
       /\ lifecycle # "Stopped"
       /\ vmSteps > 0]_vars

\* C33: once the posted validations have run, the submit-all round is over:
\* the validate-all flag is false and both counters are zero.
C33_RoundTerminates ==
  (~dlgClosed /\ queue = <<>>) =>
     /\ ~m_validateAll
     /\ m_validatedFields = 0
     /\ m_validateOkFields = 0

\* C34: the engine a run executes is built from a document that holds every
\* text change made before the run was triggered: no change is still
\* buffered in m_edits when tryStartPause builds the engine.
C34_RunReflectsEdits == vmMissing = 0

\* C35: a run triggered from the editor in Stopped whose document does not
\* build leaves the state Stopped, emits no start, leaves the engine and the
\* device of the simulator as they are and posts the error message.
C35_FailedBuildLeavesAll ==
  [][buildFails =>
       /\ lifecycle' = "Stopped"
       /\ startQueued' = startQueued
       /\ history' = history
       /\ m_vm' = m_vm
       /\ m_device' = m_device
       /\ m_gvbsim' = m_gvbsim
       /\ errorPosted']_vars

\* C35 witness: the build of a newly loaded document has failed while the
\* simulator holds the engine of the document loaded before.
C35_FailedBuildSeen ==
  /\ lastAct = "buildFails"
  /\ errorPosted
  /\ lifecycle = "Stopped"
  /\ m_gvbsim
  /\ m_vm # 0
  /\ m_vm # m_doc

\* C36: the debounce timer of the editor is running exactly when
\* m_timerModify is non-zero.
C36_TimerActiveIffModify == (m_timerModify # 0) <=> (edTimers # {})

\* C37: for every dirty rectangle of the device and every pixel scale, the
\* widget region the repaint tick invalidates contains every widget pixel
\* onto which the paint event draws the rectangle marked dirty.
C37_InvalidatedCoversDrawn ==
  markedRect # <<>> =>
    DrawnPixels(markedRect, pixel_scale) \subseteq Invalidated(updateRect)

\* The button last touched and the physical keys its tooltip names.
TouchedButton == CHOOSE b \in Buttons : b.tip = keyLabel

\* C38: a button of the on-screen keyboard injects the code that
\* qtKeyToWqxKey gives for every physical key of the same label, and a
\* physical key without a mapping injects nothing.
C38_ButtonAndKeyAgree ==
  /\ [](keySource \in {"buttonPressed", "buttonReleased"} =>
          \A k \in TouchedButton.keys :
             qtKeyToWqxKey(k) # 0 => firedKey = qtKeyToWqxKey(k))
  /\ [][(keyPressEvent \/ keyReleaseEvent) /\ firedKey' = 0 =>
          UNCHANGED <<devKeyPressed, devKeyBuffered, pendingExec>>]_vars
====
